---- MODULE Spec2Model ----
(***************************************************************************)
(* open-mem: the observation repository (rows, revision lineage,          *)
(* tombstones, embeddings, retention) as a state machine over the         *)
(* observations, sessions and observation_embeddings tables.              *)
(*                                                                         *)
(* Time is counted in whole days: created_at, superseded_at and           *)
(* deleted_at hold the day of the clock `now`, several statements can run *)
(* on the same value of the clock.  Ids handed out by randomUUID() are    *)
(* 1..MaxObs in order of creation; ids that come in through               *)
(* importObservation or as a dangling reference are the ImportIds.        *)
(***************************************************************************)
EXTENDS Integers, Sequences, FiniteSets, TLC

\* Bounds: ids randomUUID() hands out, ids importObservation may bring, days
\* the clock runs, direct supersede() calls, observations the embedding
\* step works on, and the largest argument of deleteOlderThan.
MaxObs == 2
MaxImport == 1
MaxTime == 3
MaxSupersede == 1
MaxEmbed == 1
MaxDays == 1

\* Bound of the config API: requests that change the configuration.
MaxRequest == 2

\* Bounds of the bridge: generateText calls and calls of cleanup().
MaxBridgeCall == 2
MaxCleanup == 2

\* The requests the config API serves at a time, and the generateText calls
\* of the bridge.
Handlers == {1, 2}
BridgeCalls == 1..MaxBridgeCall

\* Bounds of the queue: captures that get a pending row, and crashes of the
\* process.
MaxEnqueue == 2
MaxCrash == 1

\* Bound of the chat capture: calls of persistChatMessage.
MaxChat == 2

\* Bound of the event bus: calls of create that throw.
MaxThrow == 1

\* Daemon mode: the period of the liveness timer (30 s) in units of 10 s, and
\* the triggers of the queue.
LivenessPeriod == 3
MaxTrigger == 3

\* The provider chain: entries of fallbackProviders, and calls of the model.
MaxFallback == 2
MaxCall == 2

\* SQL NULL / JS null in an id, timestamp or embedding column.
NULL == 0

VARIABLES obs, vec, sessions, nextId, now, nSupersede, conn, ret

\* The pending store and the queue processor: the pending_messages rows, the
\* batches in flight with the stage of their first item, the run-again bit,
\* whether the process is up, and the record of what the pipeline did with
\* each capture.
VARIABLES pending, nextPid, batches, runAgain, alive, nCrash, outcomes

queueVars == <<pending, nextPid, batches, runAgain, alive, nCrash, outcomes>>

\* The mode definitions loaded from the modes directory (loadAllRaw) and the
\* last call of resolveById with its result.
VARIABLES rawModes, resolved

modeVars == <<rawModes, resolved>>

\* The chat.message hook: the calls of persistChatMessage made so far (the
\* last input, what it returned and, for each row it stored, the message as
\* the host sent it).
VARIABLES chat

\* The event bus wired to observationRepo.create: the call of the wrapped
\* create in progress, the events the listeners have received and the ids
\* the wrapped create has returned.
VARIABLES bus

\* Daemon mode of the plugin: the stage of the plugin, the daemon manager
\* and its worker, the mode of the queue runtime, the liveness timer and
\* what the triggers of the queue have done.
VARIABLES daemon

\* The AI provider chain: the configuration (primary provider and
\* fallbackProviders), and the calls of the language model made through
\* createModelWithFallback with the providers they tried.
VARIABLES provider

\* The project configuration: the process environment, the content of
\* .open-mem/config.json, the requests of the config API in flight, the audit
\* timeline, and the last call of resolveConfig or previewConfig with its
\* result.
VARIABLES config

\* The OpenCode bridge: its sessionId and sessionCreating, the generateText
\* calls, and what the bridge has asked of the session API (sessions
\* created, prompts sent, sessions deleted).
VARIABLES bridge

extVars == <<config, bridge>>

\* The state outside the repository and the queue.
hostVars == <<modeVars, chat, bus, daemon, provider, extVars>>

repoVars == <<obs, vec, sessions, nextId, nSupersede, conn, ret>>

vars == <<obs, vec, sessions, nextId, now, nSupersede, conn, ret, queueVars, hostVars>>

CreatedIds == 1..MaxObs
ImportIds == (MaxObs + 1)..(MaxObs + MaxImport)
AllIds == CreatedIds \cup ImportIds
Times == 1..MaxTime

EmbedIds == 1..MaxEmbed

\* The processes that hold a connection to memory.db.
Conns == {"host", "daemon"}

\* The sessions table: two sessions, two projects.
SessionIds == {1, 2}
Projects == {"/project/alpha", "/project/beta"}
InitSessions ==
    (1 :> [projectPath |-> "/project/alpha", status |-> "active"]) @@
    (2 :> [projectPath |-> "/project/beta", status |-> "completed"])

\* Inputs of create(): everything but the identity and lineage fields.
Bodies ==
    { [type |-> "discovery", title |-> "Alpha JWT", subtitle |-> "In auth module",
       facts |-> <<"Uses RS256">>, narrative |-> "x",
       concepts |-> {"JWT", "authentication"}, filesRead |-> {"src/auth.ts"},
       filesModified |-> {}, rawToolOutput |-> "raw", toolName |-> "Read",
       tokenCount |-> 50, discoveryTokens |-> 200, importance |-> 3],
      [type |-> "bugfix", title |-> "Beta db fix", subtitle |-> "",
       facts |-> <<>>, narrative |-> "z",
       concepts |-> {"hooks", "react hooks"}, filesRead |-> {},
       filesModified |-> {"src/db.ts"}, rawToolOutput |-> "raw", toolName |-> "Edit",
       tokenCount |-> 40, discoveryTokens |-> NULL, importance |-> NULL] }

BodyA == CHOOSE b \in Bodies : b.type = "discovery"
BodyB == CHOOSE b \in Bodies : b.type = "bugfix"

\* The calls of create() and importObservation() the model makes: the session
\* of project alpha records discoveries, that of project beta bug fixes.
CreateInputs == { <<1, BodyA>>, <<2, BodyB>> }
ImportInputs == { <<1, BodyB>> }

\* The fields update() accepts in its patch.
PatchFields ==
    {"title", "narrative", "type", "concepts", "importance", "facts", "subtitle",
     "filesRead", "filesModified"}

EmptyPatch == [f \in {} |-> NULL]
Patches ==
    { EmptyPatch,
      [f \in {"narrative", "importance"} |-> IF f = "narrative" THEN "y" ELSE 5] }

\* A connection that is not inside update().
IdleConn ==
    [pc |-> "idle", id |-> NULL, patch |-> EmptyPatch, existing |-> NULL, rev |-> NULL]

\* x ?? d
Coalesce(x, d) == IF x = NULL THEN d ELSE x

----------------------------------------------------------------------------
(* Statements of the repository, as functions of the observations table.  *)

\* Mutant: the INSERT writes NULL into revision_of, as create() does.
NewRow_WithoutRevisionOf(data, sessionId, createdAt, revisionOf, deletedAt) ==
    [sessionId |-> sessionId,
     type |-> data.type, title |-> data.title, subtitle |-> data.subtitle,
     facts |-> data.facts, narrative |-> data.narrative,
     concepts |-> data.concepts, filesRead |-> data.filesRead,
     filesModified |-> data.filesModified,
     rawToolOutput |-> data.rawToolOutput, toolName |-> data.toolName,
     createdAt |-> createdAt,
     tokenCount |-> data.tokenCount,
     discoveryTokens |-> Coalesce(data.discoveryTokens, 0),
     importance |-> Coalesce(data.importance, 3),
     embedding |-> NULL,
     revisionOf |-> NULL, deletedAt |-> deletedAt,
     supersededBy |-> NULL, supersededAt |-> NULL]

\* INSERT INTO observations ... : the row create() and importObservation()
\* write.  superseded_by, superseded_at and embedding are not in the column
\* list and start NULL.
NewRow(data, sessionId, createdAt, revisionOf, deletedAt) ==
    [sessionId |-> sessionId,
     type |-> data.type, title |-> data.title, subtitle |-> data.subtitle,
     facts |-> data.facts, narrative |-> data.narrative,
     concepts |-> data.concepts, filesRead |-> data.filesRead,
     filesModified |-> data.filesModified,
     rawToolOutput |-> data.rawToolOutput, toolName |-> data.toolName,
     createdAt |-> createdAt,
     tokenCount |-> data.tokenCount,
     discoveryTokens |-> Coalesce(data.discoveryTokens, 0),
     importance |-> Coalesce(data.importance, 3),
     embedding |-> NULL,
     revisionOf |-> revisionOf, deletedAt |-> deletedAt,
     supersededBy |-> NULL, supersededAt |-> NULL]

InsertRow(o, id, row) == (id :> row) @@ o

IsActive(o, id) ==
    id \in DOMAIN o /\ o[id].supersededBy = NULL /\ o[id].deletedAt = NULL

\* Mutant: getById without the active filter.
GetById_IncludingArchived(o, id) == IF id \in DOMAIN o THEN id ELSE NULL

\* getById: the id of the row it returns, NULL for null.
GetById(o, id) == IF IsActive(o, id) THEN id ELSE NULL

\* getByIdIncludingArchived
GetByIdIncludingArchived(o, id) == IF id \in DOMAIN o THEN id ELSE NULL

\* Mutant: the patch is ignored.
Patched_IgnoresPatch(data, existing, f) == existing[f]

\* data.f ?? existing.f for a field of the patch
Patched(data, existing, f) == IF f \in DOMAIN data THEN data[f] ELSE existing[f]

\* The argument update() passes to create(): patched fields over the
\* existing row, toolName "mem-revise", costs and raw output copied.
RevisionData(data, existing) ==
    [type |-> Patched(data, existing, "type"),
     title |-> Patched(data, existing, "title"),
     subtitle |-> Patched(data, existing, "subtitle"),
     facts |-> Patched(data, existing, "facts"),
     narrative |-> Patched(data, existing, "narrative"),
     concepts |-> Patched(data, existing, "concepts"),
     filesRead |-> Patched(data, existing, "filesRead"),
     filesModified |-> Patched(data, existing, "filesModified"),
     rawToolOutput |-> existing.rawToolOutput,
     toolName |-> "mem-revise",
     tokenCount |-> existing.tokenCount,
     discoveryTokens |-> existing.discoveryTokens,
     importance |-> Patched(data, existing, "importance")]

\* UPDATE observations SET revision_of = ? WHERE id = ?
SetRevisionOf(o, id, revisionOf) ==
    [i \in DOMAIN o |-> IF i = id THEN [o[i] EXCEPT !.revisionOf = revisionOf] ELSE o[i]]

\* supersede(): UPDATE observations SET superseded_by = ?, superseded_at = ? WHERE id = ?
SupersedeRow(o, observationId, newObservationId, t) ==
    [i \in DOMAIN o |->
        IF i = observationId
        THEN [o[i] EXCEPT !.supersededBy = newObservationId, !.supersededAt = t]
        ELSE o[i]]

\* delete(): SELECT id FROM observations WHERE id = ?
DeleteFinds(o, id) == id \in DOMAIN o

\* Mutant: the tombstone statement also resets the token count.
SetDeletedAt_ResetsTokens(o, id, t) ==
    [i \in DOMAIN o |->
        IF i = id THEN [o[i] EXCEPT !.deletedAt = t, !.tokenCount = 0] ELSE o[i]]

\* UPDATE observations SET deleted_at = ? WHERE id = ?
SetDeletedAt(o, id, t) ==
    [i \in DOMAIN o |-> IF i = id THEN [o[i] EXCEPT !.deletedAt = t] ELSE o[i]]

\* UPDATE observations SET embedding = ? WHERE id = ?   (1: a JSON vector)
SetEmbeddingRow(o, id, e) ==
    [i \in DOMAIN o |-> IF i = id THEN [o[i] EXCEPT !.embedding = e] ELSE o[i]]

\* deleteEmbeddingsForObservations(ids): the observations table afterwards
ClearEmbeddings(o, ids) ==
    [i \in DOMAIN o |-> IF i \in ids THEN [o[i] EXCEPT !.embedding = NULL] ELSE o[i]]

\* Mutant: the DELETE without the parentheses around the OR, so the session
\* test applies to tombstoned rows only.
OlderThanIds_WithoutParentheses(o, ss, t, days) ==
    { i \in DOMAIN o :
        \/ o[i].createdAt < t - days
        \/ /\ o[i].deletedAt # NULL
           /\ o[i].sessionId \notin { s \in DOMAIN ss : ss[s].status # "completed" } }

\* Mutant: the cleanup does not look at the session.
OlderThanIds_AnySession(o, ss, t, days) ==
    { i \in DOMAIN o : o[i].createdAt < t - days \/ o[i].deletedAt # NULL }

\* deleteOlderThan(days): the ids its DELETE ... RETURNING id removes.
\* datetime('now', '-N days') against created_at, in days.
OlderThanIds(o, ss, t, days) ==
    { i \in DOMAIN o :
        /\ (o[i].createdAt < t - days \/ o[i].deletedAt # NULL)
        /\ o[i].sessionId \notin { s \in DOMAIN ss : ss[s].status # "completed" } }

----------------------------------------------------------------------------
(* Reads.  A query returns a sequence of ids.  Where SQL leaves the order   *)
(* of rows open (equal sort keys, the FTS rank) every order is possible,   *)
(* so each read is the set of the results it can return.                   *)

\* JS undefined for a numeric option.
Undefined == -1

Min(a, b) == IF a < b THEN a ELSE b
Max(a, b) == IF a > b THEN a ELSE b
Range(seq) == { seq[k] : k \in 1..Len(seq) }
Take(seq, n) == SubSeq(seq, 1, Min(Max(n, 0), Len(seq)))
Drop(seq, n) == SubSeq(seq, Min(Max(n, 0), Len(seq)) + 1, Len(seq))
\* Mutant: reverse() is left out.
Reverse_Forgotten(seq) == seq

Reverse(seq) == [k \in 1..Len(seq) |-> seq[Len(seq) + 1 - k]]

\* ORDER BY: the enumerations of S in which a comes before b only if
\* MayPrecede(a, b).
Orderings(S, MayPrecede(_, _)) ==
    { f \in [1..Cardinality(S) -> S] :
        \A i, j \in 1..Cardinality(S) : i < j => f[i] # f[j] /\ MayPrecede(f[i], f[j]) }

\* LOWER() and the case folding of the FTS5 tokenizer.
Lower(str) == IF str = "JWT" THEN "jwt" ELSE str

\* The FTS5 tokens of a string.
Tokens(str) ==
    CASE str = "Alpha JWT" -> <<"alpha", "jwt">>
      [] str = "Beta db fix" -> <<"beta", "db", "fix">>
      [] str = "In auth module" -> <<"in", "auth", "module">>
      [] str = "src/auth.ts" -> <<"src", "auth", "ts">>
      [] str = "src/db.ts" -> <<"src", "db", "ts">>
      [] str = "auth.ts" -> <<"auth", "ts">>
      [] str = "src/" -> <<"src">>
      [] str = "react hooks" -> <<"react", "hooks">>
      [] str = "" -> <<>>
      [] OTHER -> <<Lower(str)>>

\* A phrase matches a text when its tokens occur in it in a row.
PhraseIn(phrase, text) ==
    /\ Len(phrase) > 0
    /\ \E k \in 0..(Len(text) - Len(phrase)) :
          \A j \in 1..Len(phrase) : text[k + j] = phrase[j]

\* observations_fts MATCH 'concepts:"<concept>"'
FtsConceptMatch(row, concept) ==
    \E c \in row.concepts : PhraseIn(Tokens(concept), Tokens(c))

\* observations_fts MATCH 'files_read:"<path>" OR files_modified:"<path>"'
FtsFileMatch(row, filePath) ==
    \E f \in row.filesRead \cup row.filesModified : PhraseIn(Tokens(filePath), Tokens(f))

\* observations_fts MATCH '<query>' for a one-phrase query, over every indexed column
FtsMatch(row, query) ==
    \/ \E str \in {row.title, row.subtitle, row.narrative} \cup row.concepts
                  \cup row.filesRead \cup row.filesModified \cup Range(row.facts) :
          PhraseIn(Tokens(query), Tokens(str))

\* Mutant: the filter forgets the tombstone column.
ActiveFilter_IgnoresTombstone(row) == row.supersededBy = NULL

\* o.superseded_by IS NULL AND o.deleted_at IS NULL
ActiveFilter(row) == row.supersededBy = NULL /\ row.deletedAt = NULL

\* Mutant: the join is made but the project is not compared.
ProjectFilter_AnyProject(ss, row, projectPath) == row.sessionId \in DOMAIN ss

\* JOIN sessions s ON o.session_id = s.id WHERE s.project_path = ?
ProjectFilter(ss, row, projectPath) ==
    row.sessionId \in DOMAIN ss /\ ss[row.sessionId].projectPath = projectPath

\* getBySession(sessionId)
GetBySession(o, sessionId) ==
    Orderings({ i \in DOMAIN o : o[i].sessionId = sessionId /\ ActiveFilter(o[i]) },
              LAMBDA a, b : o[a].createdAt <= o[b].createdAt)

\* getIndex(projectPath, limit)
GetIndex(o, ss, projectPath, limit) ==
    { Take(r, limit) :
        r \in Orderings({ i \in DOMAIN o : ProjectFilter(ss, o[i], projectPath)
                                            /\ ActiveFilter(o[i]) },
                        LAMBDA a, b : o[a].createdAt >= o[b].createdAt) }

\* getAroundTimestamp(timestamp, before, after, projectPath)
GetAroundTimestamp(o, ss, timestamp, before, after, projectPath) ==
    LET beforeSet == { i \in DOMAIN o : /\ ProjectFilter(ss, o[i], projectPath)
                                        /\ o[i].createdAt < timestamp
                                        /\ ActiveFilter(o[i]) }
        afterSet == { i \in DOMAIN o : /\ ProjectFilter(ss, o[i], projectPath)
                                       /\ o[i].createdAt > timestamp
                                       /\ ActiveFilter(o[i]) }
        beforeRows == IF before > 0
                      THEN { Reverse(Take(r, before)) :
                               r \in Orderings(beforeSet,
                                       LAMBDA a, b : o[a].createdAt >= o[b].createdAt) }
                      ELSE { <<>> }
        afterRows == IF after > 0
                     THEN { Take(r, after) :
                              r \in Orderings(afterSet,
                                      LAMBDA a, b : o[a].createdAt <= o[b].createdAt) }
                     ELSE { <<>> }
    IN  { b \o a : b \in beforeRows, a \in afterRows }

\* The WHERE clause listByProject builds for its state option
\* ("" for an omitted option).
StateFilter(row, state) ==
    CASE state = "current" -> row.supersededBy = NULL /\ row.deletedAt = NULL
      [] state = "superseded" -> row.supersededBy # NULL /\ row.deletedAt = NULL
      [] state = "tombstoned" -> row.deletedAt # NULL
      [] OTHER -> row.supersededBy = NULL /\ row.deletedAt = NULL

\* listByProject(projectPath, {limit, offset, type, state, sessionId})
ListByProject(o, ss, projectPath, opt) ==
    { Take(Drop(r, opt.offset), opt.limit) :
        r \in Orderings({ i \in DOMAIN o :
                            /\ ProjectFilter(ss, o[i], projectPath)
                            /\ (opt.sessionId # NULL => o[i].sessionId = opt.sessionId)
                            /\ (opt.type # "" => o[i].type = opt.type)
                            /\ StateFilter(o[i], opt.state) },
                        LAMBDA a, b : o[a].createdAt >= o[b].createdAt) }

\* LOWER(value) LIKE LOWER('%<f>%'): f occurs in value, letter case aside.
\* The model's paths contain one another only as the table says.
LikeContains(value, f) ==
    \/ Lower(value) = Lower(f)
    \/ f = "auth.ts" /\ value = "src/auth.ts"
    \/ f = "src/" /\ value \in {"src/auth.ts", "src/db.ts"}

\* search(query): the rows its WHERE clause keeps
SearchMatches(o, ss, q) ==
    { i \in DOMAIN o :
        /\ FtsMatch(o[i], q.query)
        /\ ActiveFilter(o[i])
        /\ (q.projectPath # "" => ProjectFilter(ss, o[i], q.projectPath))
        /\ (q.sessionId # NULL => o[i].sessionId = q.sessionId)
        /\ (q.type # "" => o[i].type = q.type)
        /\ (q.importanceMin # Undefined => o[i].importance >= q.importanceMin)
        /\ (q.importanceMax # Undefined => o[i].importance <= q.importanceMax)
        /\ (q.createdAfter # NULL => o[i].createdAt >= q.createdAfter)
        /\ (q.createdBefore # NULL => o[i].createdAt <= q.createdBefore)
        /\ (q.concepts # {} =>
              \E c \in q.concepts : \E v \in o[i].concepts : Lower(v) = Lower(c))
        /\ (q.files # {} =>
              \E f \in q.files :
                 \E v \in o[i].filesRead \cup o[i].filesModified : LikeContains(v, f)) }

\* search(query): ORDER BY rank LIMIT ? OFFSET ?
Search(o, ss, q) ==
    { Take(Drop(r, q.offset), q.limit) :
        r \in Orderings(SearchMatches(o, ss, q), LAMBDA a, b : TRUE) }

\* searchByConcept(concept, limit, projectPath)
SearchByConcept(o, ss, concept, limit, projectPath) ==
    { Take(r, limit) :
        r \in Orderings({ i \in DOMAIN o :
                            /\ FtsConceptMatch(o[i], concept)
                            /\ ActiveFilter(o[i])
                            /\ (projectPath # "" => ProjectFilter(ss, o[i], projectPath)) },
                        LAMBDA a, b : TRUE) }

\* getVecEmbeddingMatches(queryEmbedding, limit): the k nearest entries of
\* observation_embeddings, which is not joined with observations.
GetVecEmbeddingMatches(v, limit) ==
    { Take(r, limit) : r \in Orderings(v, LAMBDA a, b : TRUE) }

\* searchByFile(filePath, limit, projectPath)
SearchByFile(o, ss, filePath, limit, projectPath) ==
    { Take(r, limit) :
        r \in Orderings({ i \in DOMAIN o :
                            /\ FtsFileMatch(o[i], filePath)
                            /\ ActiveFilter(o[i])
                            /\ (projectPath # "" => ProjectFilter(ss, o[i], projectPath)) },
                        LAMBDA a, b : TRUE) }

----------------------------------------------------------------------------
(* The filter-only search strategy. *)

\* mergeUnique(values): Array.from(new Set(values))
RECURSIVE MergeUnique(_)
MergeUnique(values) ==
    IF Len(values) = 0 THEN <<>>
    ELSE LET front == MergeUnique(SubSeq(values, 1, Len(values) - 1))
             last == values[Len(values)]
         IN  IF last \in Range(front) THEN front ELSE Append(front, last)

\* mergeByObservationId(items, limit), from item k on with deduped = acc
RECURSIVE MergeFrom(_, _, _, _)
MergeFrom(items, k, acc, limit) ==
    IF k > Len(items) THEN acc
    ELSE IF items[k] \in Range(acc) THEN MergeFrom(items, k + 1, acc, limit)
    ELSE IF Len(acc) + 1 >= limit THEN Append(acc, items[k])
    ELSE MergeFrom(items, k + 1, Append(acc, items[k]), limit)

MergeByObservationId(items, limit) == MergeFrom(items, 1, <<>>, limit)

\* [...(options.concept ? [options.concept] : []), ...(options.concepts ?? [])]
ConceptTerms(options) ==
    MergeUnique((IF options.concept # "" THEN <<options.concept>> ELSE <<>>)
                \o options.concepts)

FileTerms(options) ==
    MergeUnique((IF options.file # "" THEN <<options.file>> ELSE <<>>) \o options.files)

\* Mutant: a concept that contains the term's words counts as included.
IncludesConcept_Contains(obsConcepts, term) ==
    \E c \in obsConcepts : PhraseIn(Tokens(term), Tokens(c))

\* includesConcept(obsConcepts, term)
IncludesConcept(obsConcepts, term) == \E c \in obsConcepts : Lower(c) = Lower(term)

\* includesFilePath(obsFiles, term)
IncludesFilePath(obsFiles, term) == \E f \in obsFiles : LikeContains(f, term)

\* The predicate of applyAdditionalFilters
PassesAdditionalFilters(row, options) ==
    /\ (options.type # "" => row.type = options.type)
    /\ (options.importanceMin # Undefined => row.importance >= options.importanceMin)
    /\ (options.importanceMax # Undefined => row.importance <= options.importanceMax)
    /\ (options.createdAfter # NULL => row.createdAt >= options.createdAfter)
    /\ (options.createdBefore # NULL => row.createdAt <= options.createdBefore)
    /\ (Len(ConceptTerms(options)) > 0 =>
          \E k \in 1..Len(ConceptTerms(options)) :
             IncludesConcept(row.concepts, ConceptTerms(options)[k]))
    /\ (Len(FileTerms(options)) > 0 =>
          \E k \in 1..Len(FileTerms(options)) :
             IncludesFilePath(row.filesRead \cup row.filesModified, FileTerms(options)[k]))

FilterSeq(seq, Keep(_)) == SelectSeq(seq, Keep)

\* applyAdditionalFilters(results, options)
ApplyAdditionalFilters(o, results, options) ==
    FilterSeq(results, LAMBDA i : PassesAdditionalFilters(o[i], options))

\* terms.flatMap(term => searchByX(term, limit, projectPath)): the
\* concatenations of one possible result per term
RECURSIVE FlatMapSearch(_, _, _, _, _, _)
FlatMapSearch(o, ss, byConcept, terms, limit, projectPath) ==
    IF Len(terms) = 0 THEN { <<>> }
    ELSE { head \o tail :
             head \in (IF byConcept
                       THEN SearchByConcept(o, ss, terms[1], limit, projectPath)
                       ELSE SearchByFile(o, ss, terms[1], limit, projectPath)),
             tail \in FlatMapSearch(o, ss, byConcept, Drop(terms, 1), limit, projectPath) }

\* executeFilterOnlyStrategy(deps, query, options, limit)
ExecuteFilterOnlyStrategy(o, ss, query, options, limit) ==
    IF Len(ConceptTerms(options)) > 0
    THEN { Take(ApplyAdditionalFilters(o, MergeByObservationId(matches, limit), options), limit) :
             matches \in FlatMapSearch(o, ss, TRUE, ConceptTerms(options), limit,
                                       options.projectPath) }
    ELSE IF Len(FileTerms(options)) > 0
    THEN { Take(ApplyAdditionalFilters(o, MergeByObservationId(matches, limit), options), limit) :
             matches \in FlatMapSearch(o, ss, FALSE, FileTerms(options), limit,
                                       options.projectPath) }
    ELSE Search(o, ss, [query |-> query, type |-> options.type, limit |-> limit,
                        offset |-> 0, sessionId |-> NULL,
                        projectPath |-> options.projectPath,
                        importanceMin |-> options.importanceMin,
                        importanceMax |-> options.importanceMax,
                        createdAfter |-> options.createdAfter,
                        createdBefore |-> options.createdBefore,
                        concepts |-> Range(options.concepts),
                        files |-> Range(options.files)])

----------------------------------------------------------------------------
(* getLineage *)

\* while (chain[0].revisionOf) { ... chain.unshift(previous) }
RECURSIVE WalkBack(_, _)
WalkBack(o, chain) ==
    LET previous == o[chain[1]].revisionOf
    IN  IF previous = NULL THEN chain
        ELSE IF GetByIdIncludingArchived(o, previous) = NULL \/ previous \in Range(chain)
        THEN chain
        ELSE WalkBack(o, <<previous>> \o chain)

RECURSIVE WalkForward_WithoutSeen(_, _)
\* Mutant: the forward walk has no seen set; it stops on a missing row or
\* after as many steps as the table has rows.
WalkForward_WithoutSeen(o, chain) ==
    LET successor == o[chain[Len(chain)]].supersededBy
    IN  IF successor = NULL THEN chain
        ELSE IF GetByIdIncludingArchived(o, successor) = NULL
                \/ Len(chain) > Cardinality(DOMAIN o)
        THEN chain
        ELSE WalkForward_WithoutSeen(o, Append(chain, successor))

\* while (chain[chain.length - 1].supersededBy) { ... chain.push(next) }
RECURSIVE WalkForward(_, _)
WalkForward(o, chain) ==
    LET successor == o[chain[Len(chain)]].supersededBy
    IN  IF successor = NULL THEN chain
        ELSE IF GetByIdIncludingArchived(o, successor) = NULL \/ successor \in Range(chain)
        THEN chain
        ELSE WalkForward(o, Append(chain, successor))

\* getLineage(id)
GetLineage(o, id) ==
    IF GetByIdIncludingArchived(o, id) = NULL THEN <<>>
    ELSE WalkForward(o, WalkBack(o, <<id>>))

----------------------------------------------------------------------------
Init ==
    /\ obs = [i \in {} |-> NULL]
    /\ vec = {}
    /\ sessions = InitSessions
    /\ nextId = 1
    /\ now = 1
    /\ nSupersede = 0
    /\ conn = [c \in Conns |-> IdleConn]
    /\ ret = [op |-> "init", id |-> NULL, patch |-> EmptyPatch, val |-> NULL]
    /\ pending = [i \in {} |-> NULL]
    /\ nextPid = 1
    /\ batches = {}
    /\ runAgain = FALSE
    /\ alive = TRUE
    /\ nCrash = 0
    /\ outcomes = <<>>
    /\ rawModes = [m \in {} |-> NULL]
    /\ resolved = [id |-> "", mode |-> [id |-> ""]]
    /\ chat = [n |-> 0, input |-> <<>>, returned |-> FALSE, raw |-> <<>>]
    /\ daemon = [phase |-> "init", manager |-> FALSE, alive |-> FALSE,
                 mode |-> "in-process", timerSet |-> FALSE, elapsed |-> 0,
                 deadFor |-> 0, signals |-> 0, local |-> 0]
    /\ provider = [pc |-> "unconfigured", primary |-> "", fallbackProviders |-> <<>>,
                   chain |-> <<>>, attempts |-> <<>>, calls |-> 0]
    /\ bus = [pc |-> "idle", id |-> NULL, sessionId |-> NULL, data |-> <<>>,
              target |-> NULL, events |-> <<>>, returned |-> {}, threw |-> 0]
    /\ config = [started |-> FALSE, env |-> <<>>,
                 file |-> [exists |-> FALSE, json |-> <<>>],
                 requests |-> [h \in Handlers |->
                                 [pc |-> "idle", route |-> "", patch |-> <<>>,
                                  fileConfig |-> <<>>, current |-> <<>>,
                                  before |-> <<>>, wrote |-> FALSE]],
                 audit |-> <<>>, n |-> 0,
                 last |-> [op |-> "none", patch |-> <<>>, file |-> <<>>,
                           config |-> <<>>, warnings |-> {}]]
    /\ bridge = [sessionId |-> NULL, sessionCreating |-> FALSE, creates |-> 0,
                 failures |-> 0, cleanups |-> 0, cleaned |-> 0, deleting |-> <<>>,
                 calls |-> [c \in BridgeCalls |-> [pc |-> "idle", sid |-> NULL,
                                                   early |-> FALSE, waited |-> FALSE]],
                 sessions |-> {}, prompts |-> {}, deleted |-> {}]

\* The wall clock moves on.
Tick ==
    /\ now < MaxTime
    /\ now' = now + 1
    /\ ret' = [op |-> "tick", id |-> NULL, patch |-> EmptyPatch, val |-> NULL]
    /\ UNCHANGED <<obs, vec, sessions, nextId, nSupersede, conn, queueVars, hostVars>>

\* create(data)
Create(sessionId, data) ==
    /\ nextId <= MaxObs
    /\ obs' = InsertRow(obs, nextId, NewRow(data, sessionId, now, NULL, NULL))
    /\ nextId' = nextId + 1
    /\ ret' = [op |-> "create", id |-> NULL, patch |-> EmptyPatch, val |-> nextId]
    /\ UNCHANGED <<vec, sessions, now, nSupersede, conn, queueVars, hostVars>>

\* update(id, data)
Update(id, data) ==
    LET existing == GetById(obs, id)
        rev == nextId
        o1 == InsertRow(obs, rev, NewRow(RevisionData(data, obs[id]), obs[id].sessionId,
                                         now, NULL, NULL))
        o2 == SetRevisionOf(o1, rev, id)
        o3 == SupersedeRow(o2, id, rev, now)
    IN  IF existing = NULL
        THEN /\ ret' = [op |-> "update", id |-> id, patch |-> data, val |-> NULL]
             /\ UNCHANGED <<obs, vec, sessions, nextId, now, nSupersede, conn, queueVars, hostVars>>
        ELSE IF DOMAIN data = {}
        THEN /\ ret' = [op |-> "update", id |-> id, patch |-> data, val |-> existing]
             /\ UNCHANGED <<obs, vec, sessions, nextId, now, nSupersede, conn, queueVars, hostVars>>
        ELSE /\ nextId <= MaxObs
             /\ obs' = o3
             /\ nextId' = nextId + 1
             /\ ret' = [op |-> "update", id |-> id, patch |-> data,
                        val |-> GetById(o3, rev)]
             /\ UNCHANGED <<vec, sessions, now, nSupersede, conn, queueVars, hostVars>>

\* supersede(observationId, newObservationId)
Supersede(observationId, newObservationId) ==
    /\ nSupersede < MaxSupersede
    /\ nSupersede' = nSupersede + 1
    /\ obs' = SupersedeRow(obs, observationId, newObservationId, now)
    /\ ret' = [op |-> "supersede", id |-> observationId, patch |-> EmptyPatch,
               val |-> newObservationId]
    /\ UNCHANGED <<vec, sessions, nextId, now, conn, queueVars, hostVars>>

\* delete(id)
Delete(id) ==
    IF ~DeleteFinds(obs, id)
    THEN /\ ret' = [op |-> "delete", id |-> id, patch |-> EmptyPatch, val |-> 0]
         /\ UNCHANGED <<obs, vec, sessions, nextId, now, nSupersede, conn, queueVars, hostVars>>
    ELSE /\ obs' = ClearEmbeddings(SetDeletedAt(obs, id, now), {id})
         /\ vec' = vec \ {id}
         /\ ret' = [op |-> "delete", id |-> id, patch |-> EmptyPatch, val |-> 1]
         /\ UNCHANGED <<sessions, nextId, now, nSupersede, conn, queueVars, hostVars>>

\* importObservation(data): an INSERT with the caller's id, revision_of and
\* deleted_at; a second row with the same id is refused by the primary key.
ImportObservation(id, sessionId, data, createdAt, revisionOf, deletedAt) ==
    /\ id \notin DOMAIN obs
    /\ obs' = InsertRow(obs, id, NewRow(data, sessionId, createdAt, revisionOf, deletedAt))
    /\ ret' = [op |-> "import", id |-> id, patch |-> EmptyPatch, val |-> NULL]
    /\ UNCHANGED <<vec, sessions, nextId, now, nSupersede, conn, queueVars, hostVars>>

\* setEmbedding(id, embedding)
SetEmbedding(id) ==
    /\ obs' = SetEmbeddingRow(obs, id, 1)
    /\ ret' = [op |-> "setEmbedding", id |-> id, patch |-> EmptyPatch, val |-> NULL]
    /\ UNCHANGED <<vec, sessions, nextId, now, nSupersede, conn, queueVars, hostVars>>

\* insertVecEmbedding(observationId, embedding): DELETE then INSERT in one
\* transaction.
InsertVecEmbedding(observationId) ==
    /\ vec' = (vec \ {observationId}) \cup {observationId}
    /\ ret' = [op |-> "insertVecEmbedding", id |-> observationId, patch |-> EmptyPatch,
               val |-> NULL]
    /\ UNCHANGED <<obs, sessions, nextId, now, nSupersede, conn, queueVars, hostVars>>

\* deleteOlderThan(days)
DeleteOlderThan(days) ==
    LET gone == OlderThanIds(obs, sessions, now, days)
    IN  /\ obs' = [i \in DOMAIN obs \ gone |-> obs[i]]
        /\ ret' = [op |-> "deleteOlderThan", id |-> NULL, patch |-> EmptyPatch,
                   val |-> Cardinality(gone)]
        /\ UNCHANGED <<vec, sessions, nextId, now, nSupersede, conn, queueVars, hostVars>>

\* The repository as one connection uses it: every call runs to completion.
Next ==
    \/ \E c \in CreateInputs : Create(c[1], c[2])
    \/ \E i \in AllIds, p \in Patches : Update(i, p)
    \/ \E a \in DOMAIN obs : \E b \in (DOMAIN obs \cup ImportIds) \ {a} : Supersede(a, b)
    \/ \E i \in AllIds : Delete(i)
    \/ \E i \in ImportIds, c \in ImportInputs, x \in {NULL, now} :
          \E r \in ({NULL} \cup DOMAIN obs \cup ImportIds) \ {i} :
             ImportObservation(i, c[1], c[2], now, r, x)

Spec == Init /\ [][Next]_vars

\* The repository with the clock running, the embedding step of the pipeline
\* and the retention cleanup, without the raw supersede() and
\* importObservation() calls.
NextLifecycle ==
    \/ Tick
    \/ \E c \in CreateInputs : Create(c[1], c[2])
    \/ \E i \in AllIds, p \in Patches : Update(i, p)
    \/ \E i \in AllIds : Delete(i)
    \/ \E i \in EmbedIds \cap DOMAIN obs : SetEmbedding(i)
    \/ \E i \in EmbedIds \cap DOMAIN obs : InsertVecEmbedding(i)
    \/ \E n \in 0..MaxDays : DeleteOlderThan(n)

SpecLifecycle == Init /\ [][NextLifecycle]_vars

\* deleteEmbeddingsForObservations(ids), called on its own
DeleteEmbeddingsForObservations(ids) ==
    /\ ids # {}
    /\ obs' = ClearEmbeddings(obs, ids)
    /\ vec' = vec \ ids
    /\ ret' = [op |-> "deleteEmbeddings", id |-> NULL, patch |-> EmptyPatch, val |-> ids]
    /\ UNCHANGED <<sessions, nextId, now, nSupersede, conn, queueVars, hostVars>>

\* The operations of the repository that write to rows already stored, with
\* create() and the clock, on one connection.
NextRepository ==
    \/ Tick
    \/ \E c \in CreateInputs : Create(c[1], c[2])
    \/ \E i \in AllIds, p \in Patches : Update(i, p)
    \/ \E a \in DOMAIN obs : \E b \in (DOMAIN obs \cup ImportIds) \ {a} : Supersede(a, b)
    \/ \E i \in AllIds : Delete(i)
    \/ \E i \in EmbedIds \cap DOMAIN obs : SetEmbedding(i)
    \/ \E i \in EmbedIds \cap DOMAIN obs : InsertVecEmbedding(i)
    \/ \E i \in EmbedIds \cap DOMAIN obs : DeleteEmbeddingsForObservations({i})

SpecRepository == Init /\ [][NextRepository]_vars

----------------------------------------------------------------------------
(* update() statement by statement.  It runs outside a transaction, so     *)
(* each statement commits on its own: another connection to the database   *)
(* file can run statements in between, and the process can die in between. *)

\* const existing = this.getById(id); if (!existing) return null;
\* if (Object.keys(data).length === 0) return existing;
UpdateSelect(c, id, data) ==
    /\ conn[c].pc = "idle"
    /\ IF GetById(obs, id) = NULL
       THEN /\ ret' = [op |-> "update", id |-> id, patch |-> data, val |-> NULL]
            /\ UNCHANGED conn
       ELSE IF DOMAIN data = {}
       THEN /\ ret' = [op |-> "update", id |-> id, patch |-> data, val |-> id]
            /\ UNCHANGED conn
       ELSE /\ conn' = [conn EXCEPT ![c] = [pc |-> "insert", id |-> id, patch |-> data,
                                            existing |-> obs[id], rev |-> NULL]]
            /\ ret' = [op |-> "statement", id |-> id, patch |-> data, val |-> NULL]
    /\ UNCHANGED <<obs, vec, sessions, nextId, now, nSupersede, queueVars, hostVars>>

\* const revision = this.create({...})
UpdateInsert(c) ==
    /\ conn[c].pc = "insert"
    /\ nextId <= MaxObs
    /\ obs' = InsertRow(obs, nextId,
                        NewRow(RevisionData(conn[c].patch, conn[c].existing),
                               conn[c].existing.sessionId, now, NULL, NULL))
    /\ nextId' = nextId + 1
    /\ conn' = [conn EXCEPT ![c].pc = "revisionOf", ![c].rev = nextId]
    /\ ret' = [op |-> "statement", id |-> conn[c].id, patch |-> conn[c].patch, val |-> NULL]
    /\ UNCHANGED <<vec, sessions, now, nSupersede, queueVars, hostVars>>

\* this.db.run("UPDATE observations SET revision_of = ? WHERE id = ?", [id, revision.id])
UpdateSetRevisionOf(c) ==
    /\ conn[c].pc = "revisionOf"
    /\ obs' = SetRevisionOf(obs, conn[c].rev, conn[c].id)
    /\ conn' = [conn EXCEPT ![c].pc = "supersede"]
    /\ ret' = [op |-> "statement", id |-> conn[c].id, patch |-> conn[c].patch, val |-> NULL]
    /\ UNCHANGED <<vec, sessions, nextId, now, nSupersede, queueVars, hostVars>>

\* this.supersede(id, revision.id)
UpdateSupersede(c) ==
    /\ conn[c].pc = "supersede"
    /\ obs' = SupersedeRow(obs, conn[c].id, conn[c].rev, now)
    /\ conn' = [conn EXCEPT ![c].pc = "return"]
    /\ ret' = [op |-> "statement", id |-> conn[c].id, patch |-> conn[c].patch, val |-> NULL]
    /\ UNCHANGED <<vec, sessions, nextId, now, nSupersede, queueVars, hostVars>>

\* return this.getById(revision.id)
UpdateReturn(c) ==
    /\ conn[c].pc = "return"
    /\ ret' = [op |-> "update", id |-> conn[c].id, patch |-> conn[c].patch,
               val |-> GetById(obs, conn[c].rev)]
    /\ conn' = [conn EXCEPT ![c] = IdleConn]
    /\ UNCHANGED <<obs, vec, sessions, nextId, now, nSupersede, queueVars, hostVars>>

\* The process of connection c dies inside update(); what it committed stays.
Crash(c) ==
    /\ conn[c].pc # "idle"
    /\ conn' = [conn EXCEPT ![c] = IdleConn]
    /\ ret' = [op |-> "crash", id |-> conn[c].id, patch |-> conn[c].patch, val |-> NULL]
    /\ UNCHANGED <<obs, vec, sessions, nextId, now, nSupersede, queueVars, hostVars>>

\* Two processes on one database file: the plugin host and the daemon worker.
NextStmt ==
    \/ \E c \in CreateInputs : Create(c[1], c[2])
    \/ \E i \in ImportIds, c \in ImportInputs : ImportObservation(i, c[1], c[2], now, NULL, NULL)
    \/ \E i \in AllIds : Delete(i)
    \/ \E c \in Conns, i \in AllIds, p \in Patches : UpdateSelect(c, i, p)
    \/ \E c \in Conns : UpdateInsert(c)
    \/ \E c \in Conns : UpdateSetRevisionOf(c)
    \/ \E c \in Conns : UpdateSupersede(c)
    \/ \E c \in Conns : UpdateReturn(c)
    \/ \E c \in Conns : Crash(c)

SpecStmt == Init /\ [][NextStmt]_vars

----------------------------------------------------------------------------
(* The pending store and the queue processor.  Their code is not part of   *)
(* the sources at hand (db/pending, queue/processor, runtime/queue-runtime *)
(* are only imported by the plugin entry point); they are modelled from    *)
(* the description of the pending store contract and the batch step.       *)

\* Default batch size of the configuration.
batchSize == 5

\* fail() returns a row to pending while retryCount < MAX_RETRIES.
MAX_RETRIES == 2

\* Age, in ticks of the clock, from which a processing row counts as stale.
StaleThreshold == 1

\* The captures the host reports: (sessionId, callId).
Captures == {<<1, "call-1">>, <<1, "call-2">>}

\* A row with the same (sessionId, callId) is in the store.
EnqueueFinds(p, sessionId, callId) ==
    \E i \in DOMAIN p : p[i].sessionId = sessionId /\ p[i].callId = callId

\* The row enqueue() persists.
PendingRow(sessionId, callId, createdAt) ==
    [sessionId |-> sessionId, callId |-> callId, createdAt |-> createdAt,
     status |-> "pending", retryCount |-> 0]

\* claim(n): up to n oldest pending rows, oldest first; rows of the same
\* createdAt come in either order.
ClaimOrders(p, n) ==
    { Take(f, n) :
        f \in Orderings({ i \in DOMAIN p : p[i].status = "pending" },
                        LAMBDA a, b : p[a].createdAt <= p[b].createdAt) }

\* claim(n) marks the rows it returns as processing.
MarkProcessing(p, ids) ==
    [i \in DOMAIN p |-> IF i \in ids THEN [p[i] EXCEPT !.status = "processing"] ELSE p[i]]

\* complete(id) deletes the row.
CompleteRow(p, id) == [i \in DOMAIN p \ {id} |-> p[i]]

\* fail(id, error)
FailRow(p, id) ==
    [p EXCEPT ![id].retryCount = @ + 1,
              ![id].status = IF p[id].retryCount + 1 < MAX_RETRIES THEN "pending"
                             ELSE "failed"]

\* On restart: processing rows older than the stale threshold revert.
RevertStale(p, t) ==
    [i \in DOMAIN p |->
        IF p[i].status = "processing" /\ p[i].createdAt + StaleThreshold <= t
        THEN [p[i] EXCEPT !.status = "pending"]
        ELSE p[i]]

\* What the pipeline did with a capture.
Outcome(p, id, kind) ==
    [pid |-> id, sessionId |-> p[id].sessionId, callId |-> p[id].callId,
     createdAt |-> p[id].createdAt, kind |-> kind]

\* While a batch is running, a trigger sets the run-again bit.
BatchInFlight_Never(b) == FALSE
BatchInFlight(b) == b # {}

\* A batch starts: claim up to batchSize rows; with nothing to claim the
\* batch is over at once.
StartBatch ==
    \E claimed \in ClaimOrders(pending, batchSize) :
        /\ pending' = MarkProcessing(pending, Range(claimed))
        /\ batches' = IF claimed = <<>> THEN batches
                      ELSE batches \cup {[items |-> claimed, stage |-> "compress"]}

\* enqueue(sessionId, toolName, toolOutput, callId)
Enqueue(sessionId, callId) ==
    /\ alive
    /\ IF EnqueueFinds(pending, sessionId, callId)
       THEN UNCHANGED <<pending, nextPid>>
       ELSE /\ nextPid <= MaxEnqueue
            /\ pending' = (nextPid :> PendingRow(sessionId, callId, now)) @@ pending
            /\ nextPid' = nextPid + 1
    /\ UNCHANGED <<batches, runAgain, alive, nCrash, outcomes, repoVars, now, hostVars>>

\* The interval timer fires or the host signals "process now".
Trigger ==
    /\ alive
    /\ IF BatchInFlight(batches)
       THEN /\ runAgain' = TRUE
            /\ UNCHANGED <<pending, batches>>
       ELSE /\ StartBatch
            /\ UNCHANGED runAgain
    /\ UNCHANGED <<nextPid, alive, nCrash, outcomes, repoVars, now, hostVars>>

\* Steps 1-6 of the batch step for the first item of batch b: compressed and
\* persisted as an observation (created or revised).
ItemPersist(b) ==
    /\ b.items # <<>> /\ b.stage = "compress"
    /\ outcomes' = Append(outcomes, Outcome(pending, Head(b.items), "observation"))
    /\ batches' = (batches \ {b}) \cup {[b EXCEPT !.stage = "persisted"]}
    /\ UNCHANGED <<pending, nextPid, runAgain, alive, nCrash, repoVars, now, hostVars>>

\* The conflict evaluator says drop.
ItemDrop(b) ==
    /\ b.items # <<>> /\ b.stage = "compress"
    /\ outcomes' = Append(outcomes, Outcome(pending, Head(b.items), "dropped"))
    /\ batches' = (batches \ {b}) \cup {[b EXCEPT !.stage = "persisted"]}
    /\ UNCHANGED <<pending, nextPid, runAgain, alive, nCrash, repoVars, now, hostVars>>

\* Step 7: mark the pending item complete.
ItemComplete(b) ==
    /\ b.items # <<>> /\ b.stage = "persisted"
    /\ pending' = CompleteRow(pending, Head(b.items))
    /\ batches' = (batches \ {b}) \cup {[items |-> Tail(b.items), stage |-> "compress"]}
    /\ UNCHANGED <<nextPid, runAgain, alive, nCrash, outcomes, repoVars, now, hostVars>>

\* Step 7, on failure: fail the item; the batch goes on with the next one.
ItemFail(b) ==
    /\ b.items # <<>> /\ b.stage = "compress"
    /\ pending' = FailRow(pending, Head(b.items))
    /\ outcomes' = IF pending'[Head(b.items)].status = "failed"
                   THEN Append(outcomes, Outcome(pending, Head(b.items), "failed"))
                   ELSE outcomes
    /\ batches' = (batches \ {b}) \cup {[items |-> Tail(b.items), stage |-> "compress"]}
    /\ UNCHANGED <<nextPid, runAgain, alive, nCrash, repoVars, now, hostVars>>

\* The batch is through its items: with the run-again bit set the next
\* batch starts, once.
EndBatch(b) ==
    /\ b.items = <<>>
    /\ runAgain' = FALSE
    /\ IF runAgain
       THEN \E claimed \in ClaimOrders(pending, batchSize) :
               /\ pending' = MarkProcessing(pending, Range(claimed))
               /\ batches' = IF claimed = <<>> THEN batches \ {b}
                             ELSE (batches \ {b}) \cup
                                  {[items |-> claimed, stage |-> "compress"]}
       ELSE /\ batches' = batches \ {b}
            /\ UNCHANGED pending
    /\ UNCHANGED <<nextPid, alive, nCrash, outcomes, repoVars, now, hostVars>>

\* The process dies: what it held in memory is gone, the rows stay.
ProcessDies ==
    /\ alive
    /\ nCrash < MaxCrash
    /\ alive' = FALSE
    /\ nCrash' = nCrash + 1
    /\ batches' = {}
    /\ runAgain' = FALSE
    /\ UNCHANGED <<pending, nextPid, outcomes, repoVars, now, hostVars>>

\* Startup: stale processing rows revert to pending.
Restart ==
    /\ ~alive
    /\ alive' = TRUE
    /\ pending' = RevertStale(pending, now)
    /\ UNCHANGED <<nextPid, batches, runAgain, nCrash, outcomes, repoVars, now, hostVars>>

NextQueue ==
    \/ Tick
    \/ \E c \in Captures : Enqueue(c[1], c[2])
    \/ Trigger
    \/ \E b \in batches : ItemPersist(b)
    \/ \E b \in batches : ItemDrop(b)
    \/ \E b \in batches : ItemComplete(b)
    \/ \E b \in batches : ItemFail(b)
    \/ \E b \in batches : EndBatch(b)
    \/ ProcessDies
    \/ Restart

SpecQueue == Init /\ [][NextQueue]_vars

\* The timer keeps firing, a running batch keeps going, a dead process is
\* started again.
QueueFairness ==
    /\ WF_vars(Trigger)
    /\ WF_vars(\E b \in batches : ItemPersist(b) \/ ItemDrop(b) \/ ItemFail(b))
    /\ WF_vars(\E b \in batches : ItemComplete(b))
    /\ WF_vars(\E b \in batches : EndBatch(b))
    /\ WF_vars(Restart)

SpecQueueFair == Init /\ [][NextQueue]_vars /\ QueueFairness

----------------------------------------------------------------------------
(* Workflow modes: ModeResolverV2. *)

\* An optional field of a mode: None is JS undefined, Some(v) the value v.
None == {}
Some(v) == {v}
ValueOf(x) == CHOOSE v \in x : TRUE

\* The ids of the mode files, and an id no file defines.
ModeIds == {"a", "b", "c"}
GhostMode == "ghost"

DEFAULT_MODE ==
    [id |-> "code", extends |-> None, name |-> "Code",
     description |-> "Default coding workflow mode",
     observationTypes |->
        <<"decision", "bugfix", "feature", "refactor", "discovery", "change">>,
     conceptVocabulary |->
        <<"how-it-works", "why-it-exists", "what-changed", "problem-solution",
          "gotcha", "pattern", "trade-off">>,
     entityTypes |->
        <<"technology", "library", "pattern", "concept", "file", "person",
          "project", "other">>,
     relationshipTypes |->
        <<"uses", "depends_on", "implements", "extends", "related_to", "replaces",
          "configures">>,
     promptOverrides |-> None,
     owner |-> [f \in {"observationTypes", "conceptVocabulary", "entityTypes",
                       "relationshipTypes"} |-> "DEFAULT_MODE"]]

\* The array fields a child inherits or overrides.
ArrayFields == {"observationTypes", "conceptVocabulary", "entityTypes", "relationshipTypes"}

\* The contents mode files have here: which of the fields a file carries.
\* The value of a field names the file it comes from.
ModeShapes ==
    { {"name", "description"} \cup ArrayFields,
      {"name", "description"},
      {"observationTypes", "relationshipTypes"} }

\* The promptOverrides of the mode files: none, one key, two keys.
OverrideKeys == { {}, {"language"}, {"language", "tone"} }

\* The extends of the mode files: none, a mode file, a mode no file defines.
ExtendsValues == {None} \cup { Some(m) : m \in ModeIds \cup {GhostMode} }

\* A mode file as JSON.parse returns it (ModeConfigSource).
ModeSource(id, ext, shape, keys) ==
    [id |-> id, extends |-> ext,
     name |-> IF "name" \in shape THEN Some(id) ELSE None,
     description |-> IF "description" \in shape THEN Some(id) ELSE None,
     observationTypes |-> IF "observationTypes" \in shape THEN Some(<<id>>) ELSE None,
     conceptVocabulary |-> IF "conceptVocabulary" \in shape THEN Some(<<id>>) ELSE None,
     entityTypes |-> IF "entityTypes" \in shape THEN Some(<<id>>) ELSE None,
     relationshipTypes |-> IF "relationshipTypes" \in shape THEN Some(<<id>>) ELSE None,
     promptOverrides |-> IF keys = {} THEN None ELSE Some([k \in keys |-> id])]

\* x ?? d for an optional field x
OrElse(x, d) == IF x = None THEN d ELSE ValueOf(x)

\* { ...(a ?? {}), ...(b ?? {}) }
SpreadOverrides(a, b) == OrElse(b, [k \in {} |-> ""]) @@ OrElse(a, [k \in {} |-> ""])

\* !mode.extends
NoExtends(mode) == mode.extends = None \/ mode.extends = Some("")

\* Mutant: a shallow copy, { ...mode }, whose arrays are those of its argument.
cloneMode_Shallow(mode) == mode

\* cloneMode(mode): a new object with a copy of each array.  owner[f] names
\* the object the array of field f belongs to: DEFAULT_MODE, the id of a
\* cached raw definition, or "clone" for an array made by this copy.
cloneMode(mode) == [mode EXCEPT !.owner = [f \in ArrayFields |-> "clone"]]

isCompleteRootMode(mode) ==
    /\ mode.name # None
    /\ mode.description # None
    /\ \A f \in ArrayFields : mode[f] # None

\* Mutant: the parent's arrays win over the child's.
mergeMode_BaseWins(base, override) ==
    [id |-> override.id,
     extends |-> IF override.extends = None THEN base.extends ELSE override.extends,
     name |-> OrElse(override.name, base.name),
     description |-> OrElse(override.description, base.description),
     observationTypes |-> base.observationTypes,
     conceptVocabulary |-> base.conceptVocabulary,
     entityTypes |-> base.entityTypes,
     relationshipTypes |-> base.relationshipTypes,
     promptOverrides |->
        Some(SpreadOverrides(base.promptOverrides, override.promptOverrides)),
     owner |-> base.owner]

\* mergeMode(base, override): { ...base, ...override, id, name, ... }
mergeMode(base, override) ==
    [id |-> override.id,
     extends |-> IF override.extends = None THEN base.extends ELSE override.extends,
     name |-> OrElse(override.name, base.name),
     description |-> OrElse(override.description, base.description),
     observationTypes |-> OrElse(override.observationTypes, base.observationTypes),
     conceptVocabulary |-> OrElse(override.conceptVocabulary, base.conceptVocabulary),
     entityTypes |-> OrElse(override.entityTypes, base.entityTypes),
     relationshipTypes |-> OrElse(override.relationshipTypes, base.relationshipTypes),
     promptOverrides |->
        Some(SpreadOverrides(base.promptOverrides, override.promptOverrides)),
     owner |-> [f \in ArrayFields |->
                  IF override[f] = None THEN base.owner[f] ELSE override.id]]

\* Mutant: resolveInner never finds a mode in the seen set; it gives up on
\* the default mode after as many calls as there are mode files.
RECURSIVE resolveInner_WithoutSeen(_, _, _)
resolveInner_WithoutSeen(modeId, seen, raw) ==
    IF Cardinality(seen) > Cardinality(DOMAIN raw)
    THEN [mode |-> cloneMode(DEFAULT_MODE), cycleDetected |-> FALSE]
    ELSE IF modeId \notin DOMAIN raw
    THEN [mode |-> cloneMode(DEFAULT_MODE), cycleDetected |-> FALSE]
    ELSE LET mode == raw[modeId]
         IN  IF NoExtends(mode)
             THEN IF ~isCompleteRootMode(mode)
                  THEN [mode |-> cloneMode(DEFAULT_MODE), cycleDetected |-> FALSE]
                  ELSE [mode |-> mergeMode(cloneMode(DEFAULT_MODE), mode),
                        cycleDetected |-> FALSE]
             ELSE LET parent == resolveInner_WithoutSeen(
                                   ValueOf(mode.extends),
                                   seen \cup {<<modeId, Cardinality(seen)>>}, raw)
                  IN  [mode |-> mergeMode(parent.mode, mode), cycleDetected |-> FALSE]

\* resolveInner(modeId), with the seen set of the calls above it; the result
\* carries the cycleDetected flag as the call leaves it.
RECURSIVE resolveInner(_, _, _)
resolveInner(modeId, seen, raw) ==
    IF modeId \in seen
    THEN [mode |-> cloneMode(DEFAULT_MODE), cycleDetected |-> TRUE]
    ELSE IF modeId \notin DOMAIN raw
    THEN [mode |-> cloneMode(DEFAULT_MODE), cycleDetected |-> FALSE]
    ELSE LET mode == raw[modeId]
         IN  IF NoExtends(mode)
             THEN IF ~isCompleteRootMode(mode)
                  THEN [mode |-> cloneMode(DEFAULT_MODE), cycleDetected |-> FALSE]
                  ELSE [mode |-> mergeMode(cloneMode(DEFAULT_MODE), mode),
                        cycleDetected |-> FALSE]
             ELSE LET parent == resolveInner(ValueOf(mode.extends), seen \cup {modeId}, raw)
                  IN  IF parent.cycleDetected
                      THEN [mode |-> cloneMode(DEFAULT_MODE), cycleDetected |-> TRUE]
                      ELSE [mode |-> mergeMode(parent.mode, mode), cycleDetected |-> FALSE]

\* resolveById(id, rawModes)
resolveById(id, raw) ==
    LET r == resolveInner(id, {}, raw)
    IN  IF r.cycleDetected THEN cloneMode(DEFAULT_MODE) ELSE cloneMode(r.mode)

\* loadAllRaw reads one more mode file: modes.set(parsed.id, parsed).  The
\* files are read before the first mode is resolved.
LoadMode(id, ext, shape, keys) ==
    /\ resolved.id = ""
    /\ id \notin DOMAIN rawModes
    /\ rawModes' = (id :> ModeSource(id, ext, shape, keys)) @@ rawModes
    /\ UNCHANGED <<resolved, repoVars, now, queueVars, extVars, chat, bus, daemon, provider>>

\* resolveById(id, rawModes)
ResolveById(id) ==
    /\ resolved' = [id |-> id, mode |-> resolveById(id, rawModes)]
    /\ UNCHANGED <<rawModes, repoVars, now, queueVars, extVars, chat, bus, daemon, provider>>

NextModes ==
    \/ \E id \in ModeIds, ext \in ExtendsValues,
          shape \in ModeShapes, keys \in OverrideKeys : LoadMode(id, ext, shape, keys)
    \/ \E id \in ModeIds \cup {GhostMode} : ResolveById(id)

SpecModes == Init /\ [][NextModes]_vars

----------------------------------------------------------------------------
(* Chat capture: persistChatMessage.  A text is a sequence of runs of      *)
(* characters: a word of [a-z0-9-], white space, a <private>...</private>  *)
(* block with its delimiters, a match of a sensitive pattern, or the       *)
(* marker that replaces such a match.  A run has a tag that stands for its *)
(* characters and a length.  stripPrivateBlocks and redactSensitive        *)
(* (utils/privacy) are not part of the sources at hand and are modelled    *)
(* from the description of the redactor.                                   *)

MIN_MESSAGE_LENGTH == 20
MAX_NARRATIVE_LENGTH == 2000
MAX_TITLE_CONTENT_LENGTH == 60

Run(kind, tag, len) == [kind |-> kind, tag |-> tag, len |-> len]
Word(tag, len) == Run("word", tag, len)
Space == Run("space", " ", 1)

\* The fixed marker that replaces a match of a sensitive pattern.
RedactionMarker == Run("marker", "[REDACTED]", 10)

\* "..."
Ellipsis == Run("word", "...", 3)

\* "User request: "
TitlePrefix == <<Run("word", "User request:", 13), Space>>

\* text.length
RECURSIVE TextLength(_)
TextLength(text) ==
    IF text = <<>> THEN 0 ELSE text[1].len + TextLength(Tail(text))

\* text.slice(0, n)
RECURSIVE Slice(_, _)
Slice(text, n) ==
    IF n <= 0 \/ text = <<>> THEN <<>>
    ELSE IF text[1].len <= n THEN <<text[1]>> \o Slice(Tail(text), n - text[1].len)
    ELSE <<[text[1] EXCEPT !.len = n]>>

\* stripPrivateBlocks(text): the <private>...</private> blocks are removed
\* whole, delimiters included.
stripPrivateBlocks(text) == SelectSeq(text, LAMBDA r : r.kind # "private")

\* redactSensitive(text, sensitivePatterns): every match of a pattern is
\* replaced by the marker.
redactSensitive(text) ==
    [k \in 1..Len(text) |-> IF text[k].kind = "secret" THEN RedactionMarker ELSE text[k]]

\* The words of a text after toLowerCase, replace(/[^a-z0-9\s-]/g, " ") and
\* split(/\s+/): the marker leaves the word redacted, a private block or a
\* secret leaves its tag.
WordsOf(text) ==
    LET runs == SelectSeq(text, LAMBDA r : r.kind # "space")
    IN  [k \in 1..Len(runs) |->
            IF runs[k].kind = "marker" THEN [tag |-> "redacted", len |-> 8]
            ELSE [tag |-> runs[k].tag, len |-> runs[k].len]]

\* [...new Set(words)]: the first occurrence of each word, in order
RECURSIVE Unique(_)
Unique(words) ==
    IF words = <<>> THEN <<>>
    ELSE LET rest == Unique(SubSeq(words, 1, Len(words) - 1))
             last == words[Len(words)]
         IN  IF \E k \in 1..Len(rest) : rest[k] = last THEN rest ELSE Append(rest, last)

\* extractConcepts(text)
extractConcepts(text) ==
    LET words == SelectSeq(WordsOf(text), LAMBDA w : w.len > 4)
        first == Unique([k \in 1..Len(words) |-> words[k].tag])
    IN  SubSeq(first, 1, Min(5, Len(first)))

\* Math.ceil(n / 4)
CeilDiv4(n) == (n + 3) \div 4

\* Mutant: the concepts are taken from the message as the host sent it.
ChatObservation_ConceptsFromRaw(text, processedText) ==
    LET truncatedContent ==
            IF TextLength(processedText) > MAX_TITLE_CONTENT_LENGTH
            THEN Append(Slice(processedText, MAX_TITLE_CONTENT_LENGTH), Ellipsis)
            ELSE processedText
        narrative ==
            IF TextLength(processedText) > MAX_NARRATIVE_LENGTH
            THEN Append(Slice(processedText, MAX_NARRATIVE_LENGTH), Ellipsis)
            ELSE processedText
    IN  [type |-> "discovery", title |-> TitlePrefix \o truncatedContent,
         subtitle |-> "", facts |-> <<>>, narrative |-> narrative,
         concepts |-> extractConcepts(text),
         filesRead |-> {}, filesModified |-> {}, rawToolOutput |-> "",
         toolName |-> "chat.message",
         tokenCount |-> CeilDiv4(TextLength(narrative)),
         discoveryTokens |-> 0, importance |-> 3]

\* The argument persistChatMessage passes to observations.create
ChatObservation(text, processedText) ==
    LET truncatedContent ==
            IF TextLength(processedText) > MAX_TITLE_CONTENT_LENGTH
            THEN Append(Slice(processedText, MAX_TITLE_CONTENT_LENGTH), Ellipsis)
            ELSE processedText
        narrative ==
            IF TextLength(processedText) > MAX_NARRATIVE_LENGTH
            THEN Append(Slice(processedText, MAX_NARRATIVE_LENGTH), Ellipsis)
            ELSE processedText
    IN  [type |-> "discovery", title |-> TitlePrefix \o truncatedContent,
         subtitle |-> "", facts |-> <<>>, narrative |-> narrative,
         concepts |-> extractConcepts(processedText),
         filesRead |-> {}, filesModified |-> {}, rawToolOutput |-> "",
         toolName |-> "chat.message",
         tokenCount |-> CeilDiv4(TextLength(narrative)),
         discoveryTokens |-> 0, importance |-> 3]

\* sessions.getOrCreate(sessionId, projectPath)
GetOrCreateSession(ss, sessionId, projectPath) ==
    IF sessionId \in DOMAIN ss THEN ss
    ELSE (sessionId :> [projectPath |-> projectPath, status |-> "active"]) @@ ss

\* The messages of the host: below, at and above the minimum length, above
\* the title and narrative caps, and pairs that differ only inside a private
\* block or inside a match of a sensitive pattern.
ChatTexts ==
    { <<Word("hello", 5)>>,
      <<Word("refactor", 8), Space, Word("the-parser", 10)>>,
      <<Word("implement", 9), Space, Word("pagination", 10)>>,
      <<Word("summarize", 9), Space, Word("changelog", 70)>>,
      <<Word("explain", 7), Space, Word("stacktrace", 2000)>>,
      <<Run("private", "<private>notes-a</private>", 26), Word("ok", 2)>>,
      <<Word("deploy", 6), Space, Run("private", "<private>notes-a</private>", 26),
        Space, Word("production-cluster", 18)>>,
      <<Word("deploy", 6), Space, Run("private", "<private>memo-b</private>", 25),
        Space, Word("production-cluster", 18)>>,
      <<Word("rotate", 6), Space, Word("credentials", 11), Space,
        Run("secret", "sk-aaaaaaaaaaaaaaaaaaaaaaaa", 27)>>,
      <<Word("rotate", 6), Space, Word("credentials", 11), Space,
        Run("secret", "sk-bbbbbbbbbbbbbbbbbbbbbbbbbbb", 30)>> }

\* input.agent: undefined for a user message, else the role or model name.
ChatAgents == {None, Some("user"), Some("build")}

\* The session of the message: one the sessions table has, one it lacks.
NewSessionId == 3
ChatSessions == {1, NewSessionId}

\* persistChatMessage(input)
PersistChatMessage(sessionId, projectPath, text, agent) ==
    LET processedText == redactSensitive(stripPrivateBlocks(text))
        input == [sessionId |-> sessionId, projectPath |-> projectPath,
                  text |-> text, agent |-> agent]
    IN  /\ chat.n < MaxChat
        /\ IF agent # None /\ agent # Some("user")
           THEN /\ chat' = [chat EXCEPT !.n = @ + 1, !.input = input, !.returned = FALSE]
                /\ UNCHANGED <<obs, sessions, nextId>>
           ELSE IF TextLength(processedText) < MIN_MESSAGE_LENGTH
           THEN /\ chat' = [chat EXCEPT !.n = @ + 1, !.input = input, !.returned = FALSE]
                /\ UNCHANGED <<obs, sessions, nextId>>
           ELSE /\ nextId <= MaxObs
                /\ sessions' = GetOrCreateSession(sessions, sessionId, projectPath)
                /\ obs' = InsertRow(obs, nextId,
                                    NewRow(ChatObservation(text, processedText), sessionId,
                                           now, NULL, NULL))
                /\ nextId' = nextId + 1
                /\ chat' = [n |-> chat.n + 1, input |-> input, returned |-> TRUE,
                            raw |-> Append(chat.raw, [id |-> nextId, text |-> text])]
        /\ ret' = [op |-> "persistChatMessage", id |-> NULL, patch |-> EmptyPatch,
                   val |-> NULL]
        /\ UNCHANGED <<vec, now, nSupersede, conn, queueVars, extVars, modeVars, bus, daemon, provider>>

NextChat ==
    \E sessionId \in ChatSessions, text \in ChatTexts, agent \in ChatAgents :
        PersistChatMessage(sessionId, "/project/alpha", text, agent)

SpecChat == Init /\ [][NextChat]_vars

----------------------------------------------------------------------------
(* The event bus.  With the dashboard enabled the plugin replaces          *)
(* observationRepo.create by a wrapper that calls the original create and  *)
(* then emits observation:created.  update() calls this.create, which is   *)
(* the wrapper.  JavaScript runs the wrapper to its end before any other   *)
(* call of the repository starts; emit runs the listeners at once.         *)

\* Mutant: the event is emitted as soon as the wrapper is entered.
EmitFollowsCreate_EmitFirst(b) == b.pc \in {"called", "created"}

\* bus.emit("observation:created", obs) runs after originalCreate returned.
EmitFollowsCreate(b) == b.pc = "created"

\* observationRepo.create(data) is called: the wrapper is entered.
WrappedCreateCalled(sessionId, data) ==
    /\ bus.pc = "idle"
    /\ nextId <= MaxObs
    /\ bus' = [bus EXCEPT !.pc = "called", !.id = nextId, !.sessionId = sessionId,
                          !.data = data, !.target = NULL]
    /\ UNCHANGED <<repoVars, now, queueVars, extVars, modeVars, chat, daemon, provider>>

\* update(id, data) is called on an active row with a patch that is not
\* empty: it enters the wrapper through this.create.
UpdateCallsCreate(id, data) ==
    /\ bus.pc = "idle"
    /\ nextId <= MaxObs
    /\ GetById(obs, id) # NULL
    /\ DOMAIN data # {}
    /\ bus' = [bus EXCEPT !.pc = "called", !.id = nextId, !.sessionId = obs[id].sessionId,
                          !.data = RevisionData(data, obs[id]), !.target = id]
    /\ UNCHANGED <<repoVars, now, queueVars, extVars, modeVars, chat, daemon, provider>>

\* originalCreate(...args): the INSERT commits and the observation is returned.
OriginalCreate ==
    /\ bus.pc = "called"
    /\ obs' = InsertRow(obs, bus.id, NewRow(bus.data, bus.sessionId, now, NULL, NULL))
    /\ nextId' = nextId + 1
    /\ bus' = [bus EXCEPT !.pc = "created"]
    /\ UNCHANGED <<vec, sessions, now, nSupersede, conn, ret, queueVars, extVars, modeVars, chat,
                   daemon, provider>>

\* originalCreate(...args): the INSERT throws; the exception leaves the wrapper.
OriginalCreateThrows ==
    /\ bus.pc = "called"
    /\ bus.threw < MaxThrow
    /\ bus' = [bus EXCEPT !.pc = "idle", !.id = NULL, !.threw = @ + 1]
    /\ UNCHANGED <<repoVars, now, queueVars, extVars, modeVars, chat, daemon, provider>>

\* bus.emit("observation:created", obs): the listeners receive the event.
Emit ==
    /\ EmitFollowsCreate(bus)
    /\ bus' = [bus EXCEPT !.pc = "emitted", !.events = Append(@, bus.id)]
    /\ UNCHANGED <<repoVars, now, queueVars, extVars, modeVars, chat, daemon, provider>>

\* return obs; a call that came from update() goes on with the UPDATE of
\* revision_of and supersede().
WrapperReturns ==
    /\ bus.pc = "emitted"
    /\ bus' = [bus EXCEPT !.pc = "idle", !.returned = @ \cup {bus.id}]
    /\ obs' = IF bus.target = NULL \/ bus.id \notin DOMAIN obs THEN obs
              ELSE SupersedeRow(SetRevisionOf(obs, bus.id, bus.target),
                                bus.target, bus.id, now)
    /\ UNCHANGED <<vec, sessions, nextId, now, nSupersede, conn, ret, queueVars, extVars,
                   modeVars, chat, daemon, provider>>

\* Between two calls of the wrapper: the clock, delete() and the retention
\* cleanup.
BetweenCalls ==
    /\ bus.pc = "idle"
    /\ \/ Tick
       \/ \E i \in AllIds : Delete(i)
       \/ \E n \in 0..MaxDays : DeleteOlderThan(n)

NextEvents ==
    \/ \E c \in CreateInputs : WrappedCreateCalled(c[1], c[2])
    \/ \E i \in AllIds, p \in Patches : UpdateCallsCreate(i, p)
    \/ OriginalCreate
    \/ OriginalCreateThrows
    \/ Emit
    \/ WrapperReturns
    \/ BetweenCalls

SpecEvents == Init /\ [][NextEvents]_vars

----------------------------------------------------------------------------
(* Daemon mode.  Time advances in steps of one unit; a timer that is due   *)
(* fires before time advances again.                                       *)

\* Mutant: the liveness check never finds the daemon dead.
DaemonDied_NeverSeen(d) == FALSE

\* daemonManager && !daemonManager.isRunning()
DaemonDied(d) == d.manager /\ ~d.alive

\* config.daemonEnabled and daemonManager.start() returns true:
\* queueRuntime.setEnqueueOnly(...) and setInterval(..., 30_000)
DaemonStarts ==
    /\ daemon.phase = "init"
    /\ daemon' = [daemon EXCEPT !.phase = "running", !.manager = TRUE, !.alive = TRUE,
                                !.mode = "enqueue-only", !.timerSet = TRUE,
                                !.elapsed = 0]
    /\ UNCHANGED <<repoVars, now, queueVars, extVars, modeVars, chat, bus, provider>>

\* config.daemonEnabled and daemonManager.start() returns false:
\* daemonManager = null
DaemonFailsToStart ==
    /\ daemon.phase = "init"
    /\ daemon' = [daemon EXCEPT !.phase = "running", !.manager = FALSE]
    /\ UNCHANGED <<repoVars, now, queueVars, extVars, modeVars, chat, bus, provider>>

\* The worker process ends on its own.
DaemonDies ==
    /\ daemon.phase = "running"
    /\ daemon.alive
    /\ daemon' = [daemon EXCEPT !.alive = FALSE]
    /\ UNCHANGED <<repoVars, now, queueVars, extVars, modeVars, chat, bus, provider>>

\* One unit of time passes while the liveness timer is set and not due;
\* deadFor counts the time the worker has been dead with the runtime still
\* in enqueue-only mode.
TimePasses ==
    /\ daemon.phase = "running"
    /\ daemon.timerSet
    /\ daemon.elapsed < LivenessPeriod
    /\ daemon' = [daemon EXCEPT
                     !.elapsed = @ + 1,
                     !.deadFor = IF ~daemon.alive /\ daemon.mode = "enqueue-only"
                                 THEN Min(@ + 1, LivenessPeriod + 1) ELSE @]
    /\ UNCHANGED <<repoVars, now, queueVars, extVars, modeVars, chat, bus, provider>>

\* The callback of the liveness timer.
LivenessCheck ==
    /\ daemon.phase = "running"
    /\ daemon.timerSet
    /\ daemon.elapsed = LivenessPeriod
    /\ IF DaemonDied(daemon)
       THEN daemon' = [daemon EXCEPT !.mode = "in-process", !.timerSet = FALSE,
                                     !.elapsed = 0]
       ELSE daemon' = [daemon EXCEPT !.elapsed = 0]
    /\ UNCHANGED <<repoVars, now, queueVars, extVars, modeVars, chat, bus, provider>>

\* A trigger of the queue: in enqueue-only mode it signals PROCESS_NOW to
\* the daemon, in in-process mode it runs a batch in the plugin.
TriggerProcessing ==
    /\ daemon.phase = "running"
    /\ daemon.signals + daemon.local < MaxTrigger
    /\ IF daemon.mode = "enqueue-only"
       THEN daemon' = [daemon EXCEPT !.signals = @ + 1]
       ELSE daemon' = [daemon EXCEPT !.local = @ + 1]
    /\ UNCHANGED <<repoVars, now, queueVars, extVars, modeVars, chat, bus, provider>>

\* cleanup(): clearInterval, daemonManager.stop(), queueRuntime.stop()
Cleanup ==
    /\ daemon.phase = "running"
    /\ daemon' = [daemon EXCEPT !.phase = "stopped", !.timerSet = FALSE, !.alive = FALSE]
    /\ UNCHANGED <<repoVars, now, queueVars, extVars, modeVars, chat, bus, provider>>

NextDaemon ==
    \/ DaemonStarts
    \/ DaemonFailsToStart
    \/ DaemonDies
    \/ TimePasses
    \/ LivenessCheck
    \/ TriggerProcessing
    \/ Cleanup

SpecDaemon == Init /\ [][NextDaemon]_vars

----------------------------------------------------------------------------
(* The AI provider chain.  createModelWithFallback builds the ordered list *)
(* of providers; the wrapper that walks it (ai/fallback,                   *)
(* FallbackLanguageModel) is not part of the sources at hand and is        *)
(* modelled from the description of the provider chain.                    *)

ProviderNames == {"google", "anthropic", "openai"}

\* config.fallbackProviders: undefined (here the empty list) or a list.
RECURSIVE SeqsUpTo(_, _)
SeqsUpTo(S, n) ==
    IF n = 0 THEN { <<>> }
    ELSE SeqsUpTo(S, n - 1) \cup
         { Append(q, x) : q \in { r \in SeqsUpTo(S, n - 1) : Len(r) = n - 1 }, x \in S }

FallbackLists == SeqsUpTo(ProviderNames, MaxFallback)

\* buildFallbackConfigs(config): one ModelConfig per entry, in the order of
\* config.fallbackProviders.
buildFallbackConfigs(fallbackProviders) ==
    [k \in 1..Len(fallbackProviders) |-> fallbackProviders[k]]

\* Mutant: the fallback providers are put before the primary one.
ProviderChain_FallbacksFirst(primary, fallbackConfigs) ==
    IF Len(fallbackConfigs) = 0 THEN <<primary>>
    ELSE fallbackConfigs \o <<primary>>

\* createModelWithFallback(primaryConfig, fallbackConfigs): the providers
\* the returned model calls, in order.
ProviderChain(primary, fallbackConfigs) ==
    IF Len(fallbackConfigs) = 0 THEN <<primary>>
    ELSE <<primary>> \o fallbackConfigs

\* What a provider answers to a call.
Outcomes == {"ok", "retryable", "config-error"}

\* The plugin builds the model from the configuration.
CreateModelWithFallback(primary, fallbackProviders) ==
    /\ provider.pc = "unconfigured"
    /\ provider' = [provider EXCEPT
                       !.pc = "idle", !.primary = primary,
                       !.fallbackProviders = fallbackProviders,
                       !.chain = ProviderChain(primary,
                                               buildFallbackConfigs(fallbackProviders))]
    /\ UNCHANGED <<repoVars, now, queueVars, extVars, modeVars, chat, bus, daemon>>

\* A consumer calls the model.
CallModel ==
    /\ provider.pc \in {"idle", "returned", "threw"}
    /\ provider.calls < MaxCall
    /\ provider' = [provider EXCEPT !.pc = "calling", !.attempts = <<>>, !.calls = @ + 1]
    /\ UNCHANGED <<repoVars, now, queueVars, extVars, modeVars, chat, bus, daemon>>

\* The wrapper tries the next provider of the chain: on success the call
\* returns, on a configuration error it throws, on a retryable failure it
\* goes on to the next provider and throws when there is none.
TryProvider(outcome) ==
    /\ provider.pc = "calling"
    /\ Len(provider.attempts) < Len(provider.chain)
    /\ LET name == provider.chain[Len(provider.attempts) + 1]
           tried == Append(provider.attempts, [name |-> name, outcome |-> outcome])
       IN  provider' = [provider EXCEPT
                           !.attempts = tried,
                           !.pc = IF outcome = "ok" THEN "returned"
                                  ELSE IF outcome = "config-error" THEN "threw"
                                  ELSE IF Len(tried) = Len(provider.chain) THEN "threw"
                                  ELSE "calling"]
    /\ UNCHANGED <<repoVars, now, queueVars, extVars, modeVars, chat, bus, daemon>>

NextProvider ==
    \/ \E primary \in ProviderNames, fallbackProviders \in FallbackLists :
          CreateModelWithFallback(primary, fallbackProviders)
    \/ CallModel
    \/ \E outcome \in Outcomes : TryProvider(outcome)

SpecProvider == Init /\ [][NextProvider]_vars

----------------------------------------------------------------------------
(* Project configuration: resolveConfig (config.ts) and the config store   *)
(* (config/store.ts).  An object is a function from its own keys to JSON    *)
(* values; the model follows five keys of OpenMemConfig.                    *)

\* JSON values of the three kinds the five keys take.
JStr(s) == [t |-> "string", n |-> 0, s |-> s]
JNum(n) == [t |-> "number", n |-> n, s |-> ""]
JUndefined == [t |-> "undefined", n |-> 0, s |-> ""]

\* {} and { ...a, ...b }: the keys of b win, a key of b with the value
\* undefined included.
EmptyObject == [k \in {} |-> JUndefined]
Spread(a, b) == b @@ a

\* The project directory the plugin runs in.
ProjectDir == "/project/alpha"

\* DEFAULT_CONFIG, the keys dbPath, provider, batchSize, minOutputLength and
\* embeddingDimension.
DEFAULT_CONFIG ==
    ("dbPath" :> JStr(".open-mem/memory.db")) @@
    ("provider" :> JStr("google")) @@
    ("batchSize" :> JNum(5)) @@
    ("minOutputLength" :> JNum(50)) @@
    ("embeddingDimension" :> JUndefined)

\* getDefaultConfig(): { ...DEFAULT_CONFIG }
getDefaultConfig == Spread(EmptyObject, DEFAULT_CONFIG)

\* FIELD_SCHEMA: type, min, max and enum of the keys that have a schema
\* (embeddingDimension has none).  min > max stands for no range, the empty
\* enum for no enum.
FIELD_SCHEMA ==
    ("dbPath" :> [type |-> "string", min |-> 1, max |-> 0, enum |-> {}]) @@
    ("provider" :> [type |-> "string", min |-> 1, max |-> 0,
                    enum |-> {"google", "anthropic", "openai", "openai-compatible",
                              "bedrock"}]) @@
    ("batchSize" :> [type |-> "number", min |-> 1, max |-> 100, enum |-> {}]) @@
    ("minOutputLength" :> [type |-> "number", min |-> 0, max |-> 10000, enum |-> {}])

\* Mutant: validatePatchValue checks the type of the value only.
validatePatchValue_TypeOnly(key, value) ==
    IF key \notin DOMAIN FIELD_SCHEMA THEN {}
    ELSE IF FIELD_SCHEMA[key].type # value.t
    THEN {<<key, "must be a " \o FIELD_SCHEMA[key].type>>}
    ELSE {}

\* validatePatchValue(key, value): the set with the error, empty for null.
validatePatchValue(key, value) ==
    IF key \notin DOMAIN FIELD_SCHEMA THEN {}
    ELSE LET schema == FIELD_SCHEMA[key]
         IN  IF schema.type = "string" /\ value.t # "string"
             THEN {<<key, "must be a string">>}
             ELSE IF schema.type = "number" /\ value.t # "number"
             THEN {<<key, "must be a number">>}
             ELSE IF schema.enum # {} /\ value.t = "string" /\ value.s \notin schema.enum
             THEN {<<key, "must be one of">>}
             ELSE IF value.t = "number" /\ schema.min <= schema.max /\ value.n < schema.min
             THEN {<<key, "must be >=">>}
             ELSE IF value.t = "number" /\ schema.min <= schema.max /\ value.n > schema.max
             THEN {<<key, "must be <=">>}
             ELSE {}

\* validatePatch(patch): the errors of its entries (as a set: the order of
\* the array is that of the keys of the patch).
validatePatch(patch) == UNION { validatePatchValue(k, patch[k]) : k \in DOMAIN patch }

\* Number.parseInt(s, 10) of the values the environment holds here.
parseInt(s) == CASE s = "7" -> 7 [] s = "12" -> 12 [] OTHER -> 0

\* loadFromEnv(): OPEN_MEM_PROVIDER and OPEN_MEM_BATCH_SIZE.
loadFromEnv(env) ==
    Spread(IF "OPEN_MEM_PROVIDER" \in DOMAIN env
           THEN "provider" :> JStr(env["OPEN_MEM_PROVIDER"]) ELSE EmptyObject,
           IF "OPEN_MEM_BATCH_SIZE" \in DOMAIN env
           THEN "batchSize" :> JNum(parseInt(env["OPEN_MEM_BATCH_SIZE"])) ELSE EmptyObject)

\* loadFromProjectFile(projectDir) and readProjectConfig(projectPath): {}
\* without the file, else what JSON.parse returns.
readProjectConfig(file) == IF file.exists THEN file.json ELSE EmptyObject

\* JSON.stringify(merged, null, 2): the keys whose value is undefined are
\* left out.
Stringify(o) == [k \in { j \in DOMAIN o : o[j].t # "undefined" } |-> o[k]]

\* `${projectDir}/${config.dbPath}` for a path that does not start with "/".
ResolvePath(dir, path) ==
    CASE path = ".open-mem/memory.db" -> "/project/alpha/.open-mem/memory.db"
      [] path = "data/mem.db" -> "/project/alpha/data/mem.db"
      [] OTHER -> path

\* getDefaultDimension(provider)
getDefaultDimension(name) ==
    CASE name = "google" -> 768
      [] name \in {"openai", "openai-compatible"} -> 1536
      [] name = "bedrock" -> 1024
      [] name \in {"anthropic", "openrouter"} -> 0
      [] OTHER -> 768

\* "Auto-detect provider from available env credentials": of the
\* credentials, ANTHROPIC_API_KEY is in the environments of the model.
DetectProvider(c, env, overrides) ==
    IF "OPEN_MEM_PROVIDER" \notin DOMAIN env /\ "provider" \notin DOMAIN overrides
       /\ "ANTHROPIC_API_KEY" \in DOMAIN env
    THEN [c EXCEPT !["provider"] = JStr("anthropic")]
    ELSE c

\* resolveConfig(projectDir, overrides)
resolveConfig(projectDir, file, env, overrides) ==
    LET merged == Spread(Spread(Spread(DEFAULT_CONFIG, readProjectConfig(file)),
                                loadFromEnv(env)), overrides)
        withPath == [merged EXCEPT !["dbPath"] = JStr(ResolvePath(projectDir, @.s))]
        detected == DetectProvider(withPath, env, overrides)
    IN  IF detected["embeddingDimension"].t = "undefined"
        THEN [detected EXCEPT !["embeddingDimension"] =
                                  JNum(getDefaultDimension(detected["provider"].s))]
        ELSE detected

\* getEffectiveConfig(projectPath).config
getEffectiveConfig(file, env) == resolveConfig(ProjectDir, file, env, EmptyObject)

\* previewConfig(projectPath, patch): config and warnings
previewConfig(file, env, patch) ==
    LET errors == validatePatch(patch)
        base == Spread(Spread(getDefaultConfig, readProjectConfig(file)), patch)
        live == resolveConfig(ProjectDir, file, env, patch)
    IN  IF errors # {}
        THEN [config |-> getEffectiveConfig(file, env), warnings |-> errors]
        ELSE [config |-> Spread(live, base), warnings |-> {}]

\* writeProjectConfig: what writeFile puts into config.json, given the
\* object read before.
MergedFile(current, patch) == [exists |-> TRUE, json |-> Stringify(Spread(current, patch))]

\* getEffectiveConfig(projectPath).warnings: a key of the file that an
\* environment variable overrides (ENV_BY_KEY).
EffectiveWarnings(file, env) ==
    { <<k, "is overridden by environment variable">> :
        k \in { j \in DOMAIN readProjectConfig(file) :
                  \/ j = "provider" /\ "OPEN_MEM_PROVIDER" \in DOMAIN env
                  \/ j = "batchSize" /\ "OPEN_MEM_BATCH_SIZE" \in DOMAIN env } }

\* The environments of the process: each of OPEN_MEM_PROVIDER,
\* OPEN_MEM_BATCH_SIZE and ANTHROPIC_API_KEY is set or not.
EmptyEnv == [v \in {} |-> ""]
Environments ==
    { p @@ b @@ k :
        p \in {EmptyEnv, "OPEN_MEM_PROVIDER" :> "openai"},
        b \in {EmptyEnv, "OPEN_MEM_BATCH_SIZE" :> "7"},
        k \in {EmptyEnv, "ANTHROPIC_API_KEY" :> "sk-ant"} }

\* The providers the setup wizard writes to config.json.
WizardProviders == {"openai", "bedrock"}

\* The overrides the callers of resolveConfig pass.
Overrides == {EmptyObject, "provider" :> JStr("bedrock"), "batchSize" :> JNum(9)}

\* The bodies of PATCH /v1/config and POST /v1/config/preview: valid ones on
\* disjoint keys, a wrong type, values outside the range and the enum, and
\* a valid key next to an invalid one.
ConfigPatches ==
    { "batchSize" :> JNum(3),
      ("dbPath" :> JStr("data/mem.db")) @@ ("minOutputLength" :> JNum(120)),
      "provider" :> JStr("anthropic"),
      "batchSize" :> JStr("3"),
      "provider" :> JStr("nope"),
      ("minOutputLength" :> JNum(120)) @@ ("batchSize" :> JNum(101)) }

\* MODE_PRESETS.focus, the keys of the model.
MODE_PRESETS == ("focus" :> (("minOutputLength" :> JNum(120)) @@ ("batchSize" :> JNum(3))))

IdleRequest ==
    [pc |-> "idle", route |-> "", patch |-> <<>>, fileConfig |-> <<>>,
     current |-> <<>>, before |-> <<>>, wrote |-> FALSE]

\* The process starts with its environment.
StartProcess(env) ==
    /\ ~config.started
    /\ config' = [config EXCEPT !.started = TRUE, !.env = env]
    /\ UNCHANGED <<repoVars, now, queueVars, modeVars, chat, bus, daemon, provider, bridge>>

\* runWizard (bin/cli.mjs) writes the chosen provider to config.json,
\* merged into what the file holds.
RunWizard(answer) ==
    /\ ~config.started
    /\ config' = [config EXCEPT
                    !.file = MergedFile(readProjectConfig(config.file),
                                        "provider" :> JStr(answer))]
    /\ UNCHANGED <<repoVars, now, queueVars, modeVars, chat, bus, daemon, provider, bridge>>

\* resolveConfig(projectDir, overrides), as the plugin and its callers run it
ResolveConfig(overrides) ==
    /\ config.started
    /\ config' = [config EXCEPT
                    !.last = [op |-> "resolveConfig", patch |-> overrides,
                              file |-> config.file,
                              config |-> resolveConfig(ProjectDir, config.file,
                                                       config.env, overrides),
                              warnings |-> {}]]
    /\ UNCHANGED <<repoVars, now, queueVars, modeVars, chat, bus, daemon, provider, bridge>>

\* POST /v1/config/preview: previewConfig(projectPath, body)
PreviewConfig(patch) ==
    /\ config.started
    /\ LET preview == previewConfig(config.file, config.env, patch)
       IN  config' = [config EXCEPT
                        !.last = [op |-> "previewConfig", patch |-> patch,
                                  file |-> config.file, config |-> preview.config,
                                  warnings |-> preview.warnings]]
    /\ UNCHANGED <<repoVars, now, queueVars, modeVars, chat, bus, daemon, provider, bridge>>

\* patchConfig(projectPath, patch), run to its end with no other call in
\* between.
PatchConfig(patch) ==
    LET errors == validatePatch(patch)
        written == IF errors # {} THEN config.file
                   ELSE MergedFile(readProjectConfig(config.file), patch)
    IN  /\ config.started
        /\ config.n < MaxRequest
        /\ config' = [config EXCEPT
                        !.n = @ + 1,
                        !.file = written,
                        !.last = [op |-> "patchConfig", patch |-> patch,
                                  file |-> config.file,
                                  config |-> getEffectiveConfig(written, config.env),
                                  warnings |-> IF errors # {} THEN errors
                                               ELSE EffectiveWarnings(written, config.env)]]
        /\ UNCHANGED <<repoVars, now, queueVars, modeVars, chat, bus, daemon, provider,
                       bridge>>

\* The configuration as one caller at a time uses it.
NextConfig ==
    \/ \E env \in Environments : StartProcess(env)
    \/ \E answer \in WizardProviders : RunWizard(answer)
    \/ \E overrides \in Overrides : ResolveConfig(overrides)
    \/ \E patch \in ConfigPatches : PreviewConfig(patch)
    \/ \E patch \in ConfigPatches : PatchConfig(patch)

SpecConfig == Init /\ [][NextConfig]_vars

\* PATCH /v1/config and POST /v1/modes/:id/apply: a request arrives and
\* starts to read config.json.
RequestArrives(h, route, patch) ==
    /\ config.started
    /\ config.n < MaxRequest
    /\ config.requests[h].pc = "idle"
    /\ config' = [config EXCEPT
                    !.n = @ + 1,
                    !.requests[h] = [IdleRequest EXCEPT !.pc = "readProjectConfig",
                                                        !.route = route,
                                                        !.patch = patch]]
    /\ UNCHANGED <<repoVars, now, queueVars, modeVars, chat, bus, daemon, provider, bridge>>

\* const fileConfig = await readProjectConfig(projectPath); then patchConfig
\* validates the patch and, if it is valid, writeProjectConfig starts to read
\* the file.
ReadFileConfig(h) ==
    LET r == config.requests[h]
    IN  /\ r.pc = "readProjectConfig"
        /\ config' = [config EXCEPT
                        !.requests[h] =
                            [r EXCEPT !.fileConfig = readProjectConfig(config.file),
                                      !.pc = IF validatePatch(r.patch) # {}
                                             THEN "getEffectiveConfig"
                                             ELSE "writeProjectConfig"]]
        /\ UNCHANGED <<repoVars, now, queueVars, modeVars, chat, bus, daemon, provider,
                       bridge>>

\* writeProjectConfig: const current = await readProjectConfig(projectPath)
WriteRead(h) ==
    LET r == config.requests[h]
    IN  /\ r.pc = "writeProjectConfig"
        /\ config' = [config EXCEPT
                        !.requests[h] = [r EXCEPT !.current = readProjectConfig(config.file),
                                                  !.pc = "writeFile"]]
        /\ UNCHANGED <<repoVars, now, queueVars, modeVars, chat, bus, daemon, provider,
                       bridge>>

\* writeProjectConfig: await writeFile(path, JSON.stringify(merged, null, 2))
WriteFile(h) ==
    LET r == config.requests[h]
    IN  /\ r.pc = "writeFile"
        /\ config' = [config EXCEPT
                        !.file = MergedFile(r.current, r.patch),
                        !.requests[h] = [r EXCEPT !.before = readProjectConfig(config.file),
                                                  !.wrote = TRUE,
                                                  !.pc = "getEffectiveConfig"]]
        /\ UNCHANGED <<repoVars, now, queueVars, modeVars, chat, bus, daemon, provider,
                       bridge>>

\* patchConfig returns getEffectiveConfig (with the validation errors as
\* warnings for a patch it rejected); the handler calls trackConfigAudit
\* with the values fileConfig has for the keys of the patch, and responds.
Respond(h) ==
    LET r == config.requests[h]
        errors == validatePatch(r.patch)
        previousValues == [k \in DOMAIN r.patch \cap DOMAIN r.fileConfig |-> r.fileConfig[k]]
        event == [patch |-> r.patch, previousValues |-> previousValues,
                  source |-> IF r.route = "PATCH /v1/config" THEN "api" ELSE "mode",
                  request |-> r]
    IN  /\ r.pc = "getEffectiveConfig"
        /\ config' = [config EXCEPT
                        !.requests[h] = IdleRequest,
                        !.audit = Append(@, event),
                        !.last = [op |-> "patchConfig", patch |-> r.patch,
                                  file |-> config.file,
                                  config |-> getEffectiveConfig(config.file, config.env),
                                  warnings |-> IF errors # {} THEN errors
                                               ELSE EffectiveWarnings(config.file,
                                                                      config.env)]]
        /\ UNCHANGED <<repoVars, now, queueVars, modeVars, chat, bus, daemon, provider,
                       bridge>>

\* The config API with its requests interleaved at their awaits.
NextConfigApi ==
    \/ \E env \in Environments : StartProcess(env)
    \/ \E answer \in WizardProviders : RunWizard(answer)
    \/ \E h \in Handlers, patch \in ConfigPatches : RequestArrives(h, "PATCH /v1/config", patch)
    \/ \E h \in Handlers, id \in DOMAIN MODE_PRESETS :
          RequestArrives(h, "POST /v1/modes/:id/apply", MODE_PRESETS[id])
    \/ \E h \in Handlers : ReadFileConfig(h)
    \/ \E h \in Handlers : WriteRead(h)
    \/ \E h \in Handlers : WriteFile(h)
    \/ \E h \in Handlers : Respond(h)

SpecConfigApi == Init /\ [][NextConfigApi]_vars

----------------------------------------------------------------------------
(* The OpenCode bridge.  JavaScript runs each piece of code between two    *)
(* awaits to its end, so a step is what a call does up to its next await    *)
(* on the session API.  The session API numbers the sessions it creates:    *)
(* the id of a session is the number of the session.create call.  A call    *)
(* and a session are early when they started before the first cleanup().    *)

\* Mutant: getOrCreateSession without "if (sessionCreating) return
\* sessionCreating".
MustCreate_IgnoresPending(b) == b.sessionId = NULL

\* getOrCreateSession goes on to sdk.session.create: there is no sessionId
\* and no creation in flight.
MustCreate(b) == b.sessionId = NULL /\ ~b.sessionCreating

\* sdk.session.prompt({ path: { id: sid }, ... }) by call c, as the session
\* API sees it.
PromptSent(b, c, sid) ==
    [call |-> c, sid |-> sid, afterDelete |-> sid \in b.deleted,
     waited |-> b.calls[c].waited]

\* bridgeGenerateText starts: getOrCreateSession returns the sessionId and
\* the call sends its prompt, or it waits for the creation in flight, or it
\* calls sdk.session.create and waits for it.
GenerateText(c) ==
    LET call == bridge.calls[c]
        early == bridge.cleanups = 0
    IN  /\ call.pc = "idle"
        /\ IF bridge.sessionId # NULL
           THEN bridge' = [bridge EXCEPT
                   !.calls[c] = [call EXCEPT !.pc = "prompt", !.sid = bridge.sessionId,
                                             !.early = early],
                   !.prompts = @ \cup {PromptSent(bridge, c, bridge.sessionId)}]
           ELSE IF MustCreate(bridge)
           THEN bridge' = [bridge EXCEPT
                   !.calls[c] = [call EXCEPT !.pc = "getOrCreateSession", !.early = early,
                                             !.waited = TRUE],
                   !.sessionCreating = TRUE,
                   !.creates = @ + 1,
                   !.sessions = @ \cup {[id |-> bridge.creates + 1, early |-> early,
                                         created |-> FALSE]}]
           ELSE bridge' = [bridge EXCEPT
                   !.calls[c] = [call EXCEPT !.pc = "getOrCreateSession", !.early = early,
                                             !.waited = TRUE]]
        /\ UNCHANGED <<repoVars, now, queueVars, modeVars, chat, bus, daemon, provider,
                       config>>

\* sdk.session.create resolves with an id: sessionId = id, sessionCreating =
\* null, and every call that waits for the session sends its prompt to it.
SessionCreated ==
    LET id == bridge.creates
        waiting == { c \in BridgeCalls : bridge.calls[c].pc = "getOrCreateSession" }
    IN  /\ bridge.sessionCreating
        /\ bridge' = [bridge EXCEPT
                !.sessionId = id,
                !.sessionCreating = FALSE,
                !.sessions = { IF s.id = id THEN [s EXCEPT !.created = TRUE] ELSE s :
                               s \in @ },
                !.calls = [c \in BridgeCalls |->
                              IF c \in waiting
                              THEN [@[c] EXCEPT !.pc = "prompt", !.sid = id]
                              ELSE @[c]],
                !.prompts = @ \cup { PromptSent(bridge, c, id) : c \in waiting }]
        /\ UNCHANGED <<repoVars, now, queueVars, modeVars, chat, bus, daemon, provider,
                       config>>

\* sdk.session.create rejects or returns no id: sessionCreating = null and
\* every call that waits for the session is rejected.
SessionCreateFails ==
    /\ bridge.sessionCreating
    /\ bridge' = [bridge EXCEPT
            !.sessionCreating = FALSE,
            !.failures = @ + 1,
            !.calls = [c \in BridgeCalls |->
                          IF @[c].pc = "getOrCreateSession"
                          THEN [@[c] EXCEPT !.pc = "rejected"]
                          ELSE @[c]]]
    /\ UNCHANGED <<repoVars, now, queueVars, modeVars, chat, bus, daemon, provider, config>>

\* sdk.session.prompt returns and bridgeGenerateText returns the text.
PromptReturns(c) ==
    /\ bridge.calls[c].pc = "prompt"
    /\ bridge' = [bridge EXCEPT !.calls[c].pc = "done"]
    /\ UNCHANGED <<repoVars, now, queueVars, modeVars, chat, bus, daemon, provider, config>>

\* cleanup(): with a sessionId it calls sdk.session.delete and waits for it,
\* without one it returns.
BridgeCleanup ==
    /\ bridge.cleanups < MaxCleanup
    /\ IF bridge.sessionId # NULL
       THEN bridge' = [bridge EXCEPT
               !.cleanups = @ + 1,
               !.deleted = @ \cup {bridge.sessionId},
               !.deleting = Append(@, bridge.sessionId)]
       ELSE bridge' = [bridge EXCEPT !.cleanups = @ + 1, !.cleaned = @ + 1]
    /\ UNCHANGED <<repoVars, now, queueVars, modeVars, chat, bus, daemon, provider, config>>

\* sdk.session.delete returns or throws: cleanup sets sessionId = null and
\* returns.
DeleteReturns(i) ==
    /\ i \in DOMAIN bridge.deleting
    /\ bridge' = [bridge EXCEPT
            !.sessionId = NULL,
            !.cleaned = @ + 1,
            !.deleting = [k \in 1..(Len(@) - 1) |-> IF k < i THEN @[k] ELSE @[k + 1]]]
    /\ UNCHANGED <<repoVars, now, queueVars, modeVars, chat, bus, daemon, provider, config>>

NextBridge ==
    \/ \E c \in BridgeCalls : GenerateText(c)
    \/ SessionCreated
    \/ SessionCreateFails
    \/ \E c \in BridgeCalls : PromptReturns(c)
    \/ BridgeCleanup
    \/ \E i \in 1..MaxCleanup : DeleteReturns(i)

SpecBridge == Init /\ [][NextBridge]_vars

----------------------------------------------------------------------------
(* Export and import.  The memory engine that drives them is not part of   *)
(* the sources at hand; export is modelled as the dump of the active       *)
(* observations and import (overwrite) as importObservation of each.       *)

\* mapRow(row): the Observation of a row
MapRow(row) ==
    [f \in DOMAIN row \ {"embedding"} |->
        CASE f = "discoveryTokens" -> Coalesce(row[f], 0)
          [] f = "importance" -> Coalesce(row[f], 3)
          [] OTHER -> row[f]]

\* Export: the active observations, each with its id.
ExportActive(o) ==
    { [id |-> i, observation |-> MapRow(o[i])] : i \in { j \in DOMAIN o : IsActive(o, j) } }

\* Import (overwrite) of a payload into an empty database.
ImportInto(payload) ==
    [i \in { p.id : p \in payload } |->
        LET data == (CHOOSE p \in payload : p.id = i).observation
        IN  NewRow(data, data.sessionId, data.createdAt, data.revisionOf, data.deletedAt)]

----------------------------------------------------------------------------
(* The queries the properties below put to the repository. *)

ConceptQueries == {"JWT", "hooks"}
FileQueries == {"auth.ts", "src/"}
TextQueries == {"jwt", "ts"}
Limits == {1, 10}
Pages == { <<10, 0>>, <<1, 1>> }
Timestamps == 0..MaxTime

SearchQuery(query, projectPath, limit) ==
    [query |-> query, projectPath |-> projectPath, sessionId |-> NULL, type |-> "",
     importanceMin |-> Undefined, importanceMax |-> Undefined,
     createdAfter |-> NULL, createdBefore |-> NULL, concepts |-> {}, files |-> {},
     limit |-> limit, offset |-> 0]

ListOptions(state, limit, offset) ==
    [limit |-> limit, offset |-> offset, type |-> "", state |-> state, sessionId |-> NULL]

\* Options of a strategy call: concept, concepts, file.
StrategyOptions(projectPath, concept, concepts, file) ==
    [type |-> "", file |-> file, concept |-> concept, projectPath |-> projectPath,
     importanceMin |-> Undefined, importanceMax |-> Undefined,
     createdAfter |-> NULL, createdBefore |-> NULL, concepts |-> concepts, files |-> <<>>]

StrategyCalls(projectPath) ==
    { StrategyOptions(projectPath, "", <<>>, ""),
      StrategyOptions(projectPath, "JWT", <<"hooks">>, ""),
      StrategyOptions(projectPath, "", <<"hooks">>, "src/"),
      StrategyOptions(projectPath, "", <<>>, "src/") }

\* Strategy calls with concept or file terms and a type or importance
\* filter on top.
FilteredCalls(projectPath) ==
    { [opt EXCEPT !.type = t, !.importanceMin = m] :
        opt \in { c \in StrategyCalls(projectPath) :
                    Len(ConceptTerms(c)) > 0 \/ Len(FileTerms(c)) > 0 },
        t \in {"", "bugfix"}, m \in {Undefined, 4} }

\* Strategy calls with concept terms only or file terms only.
TermCalls(projectPath) ==
    { StrategyOptions(projectPath, "JWT", <<"hooks">>, ""),
      StrategyOptions(projectPath, "react", <<>>, ""),
      StrategyOptions(projectPath, "", <<>>, "src/"),
      StrategyOptions(projectPath, "", <<>>, "auth.ts") }

\* matchedBy of the results of a strategy call with terms.
MatchedBy(options) ==
    IF Len(ConceptTerms(options)) > 0 THEN <<"concept-filter">> ELSE <<"file-filter">>

\* The per-term gathers of a strategy call, concatenated.
Gather(o, ss, options, limit) ==
    IF Len(ConceptTerms(options)) > 0
    THEN FlatMapSearch(o, ss, TRUE, ConceptTerms(options), limit, options.projectPath)
    ELSE FlatMapSearch(o, ss, FALSE, FileTerms(options), limit, options.projectPath)

\* Union of the ids in a set of result sequences.
IdsOf(results) == UNION { Range(r) : r \in results }

\* Every id a project-scoped read with projectPath can return, over the
\* listByProject states in `states`.
ProjectReadIds(o, ss, projectPath, states) ==
    UNION ( { IdsOf(GetIndex(o, ss, projectPath, n)) : n \in Limits }
      \cup { IdsOf(GetAroundTimestamp(o, ss, t, 1, 1, projectPath)) : t \in Timestamps }
      \cup { IdsOf(ListByProject(o, ss, projectPath, ListOptions(st, pg[1], pg[2]))) :
               st \in states, pg \in Pages }
      \cup { IdsOf(Search(o, ss, SearchQuery(q, projectPath, n))) :
               q \in TextQueries, n \in Limits }
      \cup { IdsOf(SearchByConcept(o, ss, c, n, projectPath)) :
               c \in ConceptQueries, n \in Limits }
      \cup { IdsOf(SearchByFile(o, ss, f, n, projectPath)) :
               f \in FileQueries, n \in Limits }
      \cup { IdsOf(ExecuteFilterOnlyStrategy(o, ss, "ts", opt, n)) :
               opt \in StrategyCalls(projectPath), n \in Limits } )

\* Every id a default read can return: by id, by session, by project, and
\* the searches with and without a project.
DefaultReadIds(o, ss) ==
    UNION ( { { GetById(o, i) } \ {NULL} : i \in AllIds }
      \cup { IdsOf(GetBySession(o, sid)) : sid \in SessionIds }
      \cup { ProjectReadIds(o, ss, pp, {"", "current"}) : pp \in Projects }
      \cup { IdsOf(Search(o, ss, SearchQuery(q, "", n))) : q \in TextQueries, n \in Limits }
      \cup { IdsOf(SearchByConcept(o, ss, c, n, "")) : c \in ConceptQueries, n \in Limits }
      \cup { IdsOf(SearchByFile(o, ss, f, n, "")) : f \in FileQueries, n \in Limits } )

----------------------------------------------------------------------------
(* Lifecycle states. *)

\* C1: every row is in exactly one of the states active, superseded and
\* tombstoned: no row has both supersededBy and deletedAt set.
C1_ExactlyOneLifecycleState ==
    \A i \in DOMAIN obs : ~(obs[i].supersededBy # NULL /\ obs[i].deletedAt # NULL)

\* C2: a default read (getById, getBySession, getIndex, getAroundTimestamp,
\* listByProject with state omitted or current, search, searchByConcept,
\* searchByFile) never returns a row whose supersededBy or deletedAt is set.
C2_DefaultReadsReturnActiveOnly ==
    \A i \in DefaultReadIds(obs, sessions) :
        i \in DOMAIN obs /\ obs[i].supersededBy = NULL /\ obs[i].deletedAt = NULL

\* A superseded row, a tombstoned row and an active row that is read.
C2_Witness ==
    /\ \E i \in DOMAIN obs : obs[i].supersededBy # NULL /\ obs[i].deletedAt = NULL
    /\ \E i \in DOMAIN obs : obs[i].deletedAt # NULL
    /\ DefaultReadIds(obs, sessions) # {}

\* C3: every observation a read with projectPath = P returns belongs to a
\* session of project P.
C3_ProjectIsolationOfReads ==
    \A pp \in Projects :
        \A i \in ProjectReadIds(obs, sessions, pp, {"", "current", "superseded", "tombstoned"}) :
            /\ i \in DOMAIN obs
            /\ obs[i].sessionId \in DOMAIN sessions
            /\ sessions[obs[i].sessionId].projectPath = pp

\* Both projects hold an active row matching the same query, and each
\* project's reads return something.
C3_Witness ==
    /\ \A pp \in Projects :
          ProjectReadIds(obs, sessions, pp, {""}) # {}
    /\ Cardinality(IdsOf(Search(obs, sessions, SearchQuery("ts", "", 10)))) >= 2
    /\ \E pp \in Projects :
          IdsOf(Search(obs, sessions, SearchQuery("ts", pp, 10)))
             # IdsOf(Search(obs, sessions, SearchQuery("ts", "", 10)))

\* C4: supersededBy and revisionOf mirror each other, no row has two
\* successors or two predecessors, and the links have no cycle.
SuccessorsOf(o, a) == { b \in DOMAIN o : o[b].revisionOf = a }
PredecessorsOf(o, b) == { a \in DOMAIN o : o[a].supersededBy = b }

RECURSIVE ReachesBySupersededBy(_, _, _, _)
ReachesBySupersededBy(o, from, to, fuel) ==
    /\ fuel > 0
    /\ from \in DOMAIN o
    /\ o[from].supersededBy # NULL
    /\ \/ o[from].supersededBy = to
       \/ ReachesBySupersededBy(o, o[from].supersededBy, to, fuel - 1)

RECURSIVE ReachesByRevisionOf(_, _, _, _)
ReachesByRevisionOf(o, from, to, fuel) ==
    /\ fuel > 0
    /\ from \in DOMAIN o
    /\ o[from].revisionOf # NULL
    /\ \/ o[from].revisionOf = to
       \/ ReachesByRevisionOf(o, o[from].revisionOf, to, fuel - 1)

C4_LineageLinksConsistent ==
    /\ \A a \in DOMAIN obs :
          obs[a].supersededBy # NULL =>
             /\ obs[a].supersededBy \in DOMAIN obs
             /\ obs[obs[a].supersededBy].revisionOf = a
    /\ \A a \in DOMAIN obs :
          /\ Cardinality(SuccessorsOf(obs, a)) <= 1
          /\ Cardinality(PredecessorsOf(obs, a)) <= 1
          /\ ~ReachesBySupersededBy(obs, a, a, Cardinality(DOMAIN obs))
          /\ ~ReachesByRevisionOf(obs, a, a, Cardinality(DOMAIN obs))

----------------------------------------------------------------------------
(* Revisions. *)

\* C5: update is one atomic step: no state of the database, as another
\* connection or a restart after a crash finds it, has a successor row
\* without revisionOf, or a predecessor and its successor both active, and no
\* row gets two successors from two update calls.
C5_UpdateIsAtomic ==
    /\ \A i \in DOMAIN obs : obs[i].toolName = "mem-revise" => obs[i].revisionOf # NULL
    /\ \A i \in DOMAIN obs :
          obs[i].revisionOf # NULL =>
             ~(IsActive(obs, i) /\ IsActive(obs, obs[i].revisionOf))
    /\ \A a \in DOMAIN obs : Cardinality(SuccessorsOf(obs, a)) <= 1

\* C6 as stated: update(id, patch) on an active id, for every patch, the
\* empty one included, returns a new row with revisionOf = id and the
\* patched fields, leaves id inactive with supersededBy = the new id, and
\* getLineage(new id) = [id, new id].
C6_UpdateAlwaysCreatesRevision ==
    [][ (ret'.op = "update" /\ IsActive(obs, ret'.id)) =>
          /\ ret'.val # NULL
          /\ ret'.val \notin DOMAIN obs
          /\ ret'.val \in DOMAIN obs'
          /\ obs'[ret'.val].revisionOf = ret'.id
          /\ \A f \in PatchFields :
                obs'[ret'.val][f] = IF f \in DOMAIN ret'.patch THEN ret'.patch[f]
                                    ELSE obs[ret'.id][f]
          /\ GetById(obs', ret'.id) = NULL
          /\ GetByIdIncludingArchived(obs', ret'.id) = ret'.id
          /\ obs'[ret'.id].supersededBy = ret'.val
          /\ GetLineage(obs', ret'.val) = <<ret'.id, ret'.val>> ]_vars

\* C6 amended: with a non-empty patch update(id, patch) on an active id
\* returns a new row with revisionOf = id whose patchable fields are the
\* patch's where it gives one and id's otherwise, getById(id) is then null,
\* id's supersededBy is the new id, and getLineage(new id) is id's lineage
\* followed by the new id; with the empty patch it returns id itself and
\* writes nothing.
C6_UpdateCreatesRevisionUnlessEmptyPatch ==
    [][ (ret'.op = "update" /\ IsActive(obs, ret'.id)) =>
          IF DOMAIN ret'.patch = {}
          THEN ret'.val = ret'.id /\ obs' = obs
          ELSE /\ ret'.val # NULL
               /\ ret'.val \notin DOMAIN obs
               /\ ret'.val \in DOMAIN obs'
               /\ obs'[ret'.val].revisionOf = ret'.id
               /\ \A f \in PatchFields :
                     obs'[ret'.val][f] = IF f \in DOMAIN ret'.patch THEN ret'.patch[f]
                                         ELSE obs[ret'.id][f]
               /\ GetById(obs', ret'.id) = NULL
               /\ GetByIdIncludingArchived(obs', ret'.id) = ret'.id
               /\ obs'[ret'.id].supersededBy = ret'.val
               /\ GetLineage(obs', ret'.val) = Append(GetLineage(obs, ret'.id), ret'.val) ]_vars

\* update() has just revised a row that was itself a revision.
C6_Witness ==
    /\ ret.op = "update"
    /\ DOMAIN ret.patch # {}
    /\ ret.val # NULL
    /\ Len(GetLineage(obs, ret.val)) = 3
    /\ obs[ret.val].importance = 5
    /\ obs[ret.val].title = obs[ret.id].title

\* C7: getLineage(id) has no repeated id, runs from oldest to newest, and
\* every adjacent pair satisfies next.revisionOf = prev.id and
\* prev.supersededBy = next.id.
C7_LineageIsLinkedChain ==
    \A id \in AllIds :
        LET chain == GetLineage(obs, id)
        IN  /\ \A i, j \in 1..Len(chain) : i < j => chain[i] # chain[j]
            /\ \A k \in 1..(Len(chain) - 1) :
                  /\ obs[chain[k + 1]].revisionOf = chain[k]
                  /\ obs[chain[k]].supersededBy = chain[k + 1]
                  /\ obs[chain[k]].createdAt <= obs[chain[k + 1]].createdAt

----------------------------------------------------------------------------
(* Tombstones. *)

\* C8: delete(id) on an active id sets deletedAt, removes the vector entry
\* and the JSON embedding and returns true; on any other id it returns false
\* and leaves every row unchanged.
C8_DeleteActsOnActiveRowsOnly ==
    [][ ret'.op = "delete" =>
          IF IsActive(obs, ret'.id)
          THEN /\ ret'.val = 1
               /\ obs'[ret'.id].deletedAt # NULL
               /\ obs'[ret'.id].embedding = NULL
               /\ ret'.id \notin vec'
          ELSE /\ ret'.val = 0
               /\ obs' = obs
               /\ vec' = vec ]_vars

\* The session of row i exists and is not completed.
SessionOpen(o, ss, i) ==
    o[i].sessionId \in DOMAIN ss /\ ss[o[i].sessionId].status # "completed"

C10_TombstoneHasNoVector ==
    \A i \in DOMAIN obs :
        obs[i].deletedAt # NULL =>
            /\ obs[i].embedding = NULL
            /\ i \notin vec
            /\ \A n \in Limits : i \notin IdsOf(GetVecEmbeddingMatches(vec, n))
----------------------------------------------------------------------------
(* The pending queue. *)

\* The pipeline has recorded an outcome of one of the kinds for row id.
HasOutcome(log, id, kinds) ==
    \E k \in 1..Len(log) : log[k].pid = id /\ log[k].kind \in kinds

\* C11: at-least-once: every enqueued capture eventually leaves pending and
\* processing (its row is completed or ends in failed), a row leaves the
\* store only after an observation or an explicit drop, and a row is failed
\* only after MAX_RETRIES failures; also across a crash and the stale
\* revert.
C11_PendingQueueAtLeastOnce ==
    /\ \A i \in 1..MaxEnqueue :
          (i \in DOMAIN pending) ~> (i \notin DOMAIN pending \/ pending[i].status = "failed")
    /\ [][ \A i \in DOMAIN pending :
             /\ i \notin DOMAIN pending' => HasOutcome(outcomes', i, {"observation", "dropped"})
             /\ (i \in DOMAIN pending' /\ pending'[i].status = "failed") =>
                   pending'[i].retryCount >= MAX_RETRIES ]_vars
\* C12: idempotent enqueue: the store never holds two rows of one
\* (sessionId, callId), and the captures of one (sessionId, callId) have
\* produced at most one observation.
C12_IdempotentEnqueue ==
    \A c \in Captures :
        /\ Cardinality({ i \in DOMAIN pending :
                           pending[i].sessionId = c[1] /\ pending[i].callId = c[2] }) <= 1
        /\ Cardinality({ k \in 1..Len(outcomes) :
                           /\ outcomes[k].sessionId = c[1]
                           /\ outcomes[k].callId = c[2]
                           /\ outcomes[k].kind = "observation" }) <= 1

\* The rows of the batches in flight.
InFlight(bs) == UNION { Range(b.items) : b \in bs }

\* C13: at most one batch is in flight; a row is claimed only while it is
\* pending and then belongs to the batch in flight; a trigger during a
\* batch sets the run-again bit, and the end of a batch with the bit set
\* clears it and claims the waiting rows into one further batch.
C13_TriggerCoalescing ==
    [][ /\ Cardinality(batches') <= 1
        /\ \A i \in DOMAIN pending :
              (i \in DOMAIN pending' /\ pending[i].status # "processing"
                 /\ pending'[i].status = "processing") =>
                 /\ pending[i].status = "pending"
                 /\ i \in InFlight(batches') \ InFlight(batches)
        /\ (Trigger /\ batches # {}) => (runAgain' /\ batches' = batches)
        /\ ((\E b \in batches : EndBatch(b)) /\ runAgain) =>
              /\ ~runAgain'
              /\ \A i \in DOMAIN pending : pending'[i].status # "pending"
              /\ (\E i \in DOMAIN pending : pending[i].status = "pending") =>
                    Cardinality(batches') = 1 ]_vars

\* A trigger has arrived while a batch was running, with a row waiting.
C13_Witness ==
    /\ runAgain
    /\ \E b \in batches : b.items = <<>>
    /\ \E i \in DOMAIN pending : pending[i].status = "pending"

\* C14: within a session rows are processed in ascending createdAt: when a
\* row has its observation persisted or has failed for good, every row of
\* the session with a smaller createdAt had its own such outcome before.
C14_PerSessionOrder ==
    \A k \in 1..Len(outcomes) :
        outcomes[k].kind \in {"observation", "failed"} =>
            /\ \A i \in DOMAIN pending :
                  (/\ i # outcomes[k].pid
                   /\ pending[i].sessionId = outcomes[k].sessionId
                   /\ pending[i].createdAt < outcomes[k].createdAt) =>
                     \E j \in 1..(k - 1) :
                        outcomes[j].pid = i /\ outcomes[j].kind \in {"observation", "failed"}
            /\ \A m \in 1..Len(outcomes) :
                  (/\ outcomes[m].pid # outcomes[k].pid
                   /\ outcomes[m].sessionId = outcomes[k].sessionId
                   /\ outcomes[m].createdAt < outcomes[k].createdAt) =>
                     \E j \in 1..(k - 1) :
                        /\ outcomes[j].pid = outcomes[m].pid
                        /\ outcomes[j].kind \in {"observation", "failed", "dropped"}
----------------------------------------------------------------------------
(* The filter-only strategy. *)

\* Deduplicate, filter, and only then cut to limit.
FilterThenCut(o, matches, options, limit) ==
    Take(ApplyAdditionalFilters(o, MergeByObservationId(matches, Len(matches) + 1), options),
         limit)

\* C15: with concept or file terms the strategy returns the gathered
\* candidates deduplicated by id, filtered by all the filters and only then
\* cut to limit.
C15_TruncationAfterFiltering ==
    \A pp \in Projects, n \in Limits :
        \A opt \in FilteredCalls(pp) :
            ExecuteFilterOnlyStrategy(obs, sessions, "ts", opt, n)
               = { FilterThenCut(obs, matches, opt, n) :
                     matches \in Gather(obs, sessions, opt, n) }
\* The in-project active rows that match a term of the call in the full-text
\* index.
TermMatches(o, ss, options) ==
    { i \in DOMAIN o :
        /\ o[i].supersededBy = NULL /\ o[i].deletedAt = NULL
        /\ o[i].sessionId \in DOMAIN ss
        /\ ss[o[i].sessionId].projectPath = options.projectPath
        /\ IF Len(ConceptTerms(options)) > 0
           THEN \E k \in 1..Len(ConceptTerms(options)) :
                   FtsConceptMatch(o[i], ConceptTerms(options)[k])
           ELSE \E k \in 1..Len(FileTerms(options)) :
                   FtsFileMatch(o[i], FileTerms(options)[k]) }

\* The rows with a concept equal to a term (a file path that contains a
\* term), letter case aside.
ExactMatches(o, options) ==
    { i \in DOMAIN o :
        IF Len(ConceptTerms(options)) > 0
        THEN \E k \in 1..Len(ConceptTerms(options)), c \in o[i].concepts :
                Lower(c) = Lower(ConceptTerms(options)[k])
        ELSE \E k \in 1..Len(FileTerms(options)),
                f \in o[i].filesRead \cup o[i].filesModified :
                LikeContains(f, FileTerms(options)[k]) }

\* r holds each id once, at most limit of them, in the order in which one
\* of the gathers first shows them.
FirstSeenOrder(o, ss, options, limit, r) ==
    /\ Len(r) <= limit
    /\ \A i, j \in 1..Len(r) : i < j => r[i] # r[j]
    /\ \E matches \in Gather(o, ss, options, limit) :
          r = SelectSeq(MergeByObservationId(matches, Len(matches) + 1),
                        LAMBDA i : i \in Range(r))

\* C16 as stated: the strategy returns the in-project active rows that
\* match a term (all of them when no more than limit match), once each, in
\* first-seen order, annotated with the filter that matched.
C16_ReturnsEveryTermMatch ==
    \A pp \in Projects, n \in Limits :
        \A opt \in TermCalls(pp) :
            \A r \in ExecuteFilterOnlyStrategy(obs, sessions, "ts", opt, n) :
                /\ FirstSeenOrder(obs, sessions, opt, n, r)
                /\ Range(r) \subseteq TermMatches(obs, sessions, opt)
                /\ Cardinality(TermMatches(obs, sessions, opt)) <= n =>
                      Range(r) = TermMatches(obs, sessions, opt)
                /\ MatchedBy(opt) = IF opt.concept # "" \/ opt.concepts # <<>>
                                    THEN <<"concept-filter">> ELSE <<"file-filter">>

\* C16 amended: of the rows that match a term in the full-text index the
\* strategy returns those that also have a concept equal to a term (a file
\* path containing a term): all of them when no more than limit rows match
\* in the index, once each, in first-seen order.
C16_ReturnsExactTermMatches ==
    \A pp \in Projects, n \in Limits :
        \A opt \in TermCalls(pp) :
            \A r \in ExecuteFilterOnlyStrategy(obs, sessions, "ts", opt, n) :
                /\ FirstSeenOrder(obs, sessions, opt, n, r)
                /\ Range(r) \subseteq TermMatches(obs, sessions, opt) \cap ExactMatches(obs, opt)
                /\ Cardinality(TermMatches(obs, sessions, opt)) <= n =>
                      Range(r) = TermMatches(obs, sessions, opt) \cap ExactMatches(obs, opt)
                /\ MatchedBy(opt) = IF opt.concept # "" \/ opt.concepts # <<>>
                                    THEN <<"concept-filter">> ELSE <<"file-filter">>

\* Two rows of project alpha come back for two concept terms, and the row
\* with the concept "react hooks" does not come back for the term "react".
C16_Witness ==
    /\ \E r \in ExecuteFilterOnlyStrategy(obs, sessions, "ts",
                  StrategyOptions("/project/alpha", "JWT", <<"hooks">>, ""), 10) : Len(r) = 2
    /\ TermMatches(obs, sessions, StrategyOptions("/project/alpha", "react", <<>>, "")) # {}
    /\ ExecuteFilterOnlyStrategy(obs, sessions, "ts",
          StrategyOptions("/project/alpha", "react", <<>>, ""), 10) = { <<>> }
\* C17: whatever options.projectPath is, the empty string included, every
\* observation a strategy call returns belongs to the requested project, and
\* no call returns observations of two projects.
C17_ProjectFilterAlwaysApplied ==
    \A pp \in Projects \cup {""}, n \in Limits :
        \A opt \in StrategyCalls(pp) :
            \A r \in ExecuteFilterOnlyStrategy(obs, sessions, "ts", opt, n) :
                /\ \A i \in Range(r) : sessions[obs[i].sessionId].projectPath = pp
                /\ \A i, j \in Range(r) :
                      sessions[obs[i].sessionId].projectPath
                         = sessions[obs[j].sessionId].projectPath
----------------------------------------------------------------------------
(* Listing and timeline. *)

\* The rows listByProject matches, ordered by createdAt descending, then id
\* descending.
ListedDesc(o, ss, projectPath, state) ==
    CHOOSE f \in Orderings({ i \in DOMAIN o :
                               /\ o[i].sessionId \in DOMAIN ss
                               /\ ss[o[i].sessionId].projectPath = projectPath
                               /\ StateFilter(o[i], state) },
                           LAMBDA a, b : \/ o[a].createdAt > o[b].createdAt
                                         \/ o[a].createdAt = o[b].createdAt /\ a > b) : TRUE

\* C18: the pages of listByProject at offsets 0, limit, 2*limit, ... are the
\* consecutive pieces of the matching rows ordered by createdAt descending,
\* then id descending; a page request has one possible answer.
C18_StablePagination ==
    \A pp \in Projects, st \in {"", "current", "superseded", "tombstoned"}, lim \in 1..2 :
        \A k \in 0..(MaxObs + MaxImport) :
            \A page \in ListByProject(obs, sessions, pp, ListOptions(st, lim, k * lim)) :
                page = Take(Drop(ListedDesc(obs, sessions, pp, st), k * lim), lim)
\* C19: getAroundTimestamp(ts, before, after, P) returns active rows of
\* project P only, none created at ts: first the (at most) `before` rows
\* nearest before ts, then the (at most) `after` rows nearest after ts, in
\* ascending createdAt order.
C19_WindowAroundTimestamp ==
    \A pp \in Projects, ts \in 0..(MaxTime + 1), before \in 0..2, after \in 0..2 :
        LET inProject == { i \in DOMAIN obs :
                             /\ obs[i].supersededBy = NULL /\ obs[i].deletedAt = NULL
                             /\ sessions[obs[i].sessionId].projectPath = pp }
            earlier == { i \in inProject : obs[i].createdAt < ts }
            later == { i \in inProject : obs[i].createdAt > ts }
        IN  \A r \in GetAroundTimestamp(obs, sessions, ts, before, after, pp) :
               LET b == SelectSeq(r, LAMBDA i : i \in earlier)
                   a == SelectSeq(r, LAMBDA i : i \in later)
               IN  /\ r = b \o a
                   /\ \A i, j \in 1..Len(r) :
                         i < j => r[i] # r[j] /\ obs[r[i]].createdAt <= obs[r[j]].createdAt
                   /\ Len(b) = Min(before, Cardinality(earlier))
                   /\ Len(a) = Min(after, Cardinality(later))
                   /\ \A i \in earlier \ Range(b), j \in Range(b) :
                         obs[i].createdAt <= obs[j].createdAt
                   /\ \A i \in later \ Range(a), j \in Range(a) :
                         obs[i].createdAt >= obs[j].createdAt

\* A call finds one row before and one after the timestamp, and leaves out
\* a row created at the timestamp.
C19_Witness ==
    /\ \E r \in GetAroundTimestamp(obs, sessions, 2, 1, 1, "/project/alpha") :
          Len(r) = 2 /\ obs[r[1]].createdAt = 1 /\ obs[r[2]].createdAt = 3
    /\ \E i \in DOMAIN obs :
          /\ obs[i].createdAt = 3 /\ IsActive(obs, i)
          /\ GetAroundTimestamp(obs, sessions, 3, 2, 2, "/project/alpha") = { <<1>> }
----------------------------------------------------------------------------
(* Export and import. *)

----------------------------------------------------------------------------
(* Token costs. *)

\* C21: no call of update, supersede, delete, setEmbedding,
\* insertVecEmbedding or deleteEmbeddingsForObservations changes tokenCount
\* or discoveryTokens of a row that exists before the call.
C21_TokenCostsImmutable ==
    [][\A i \in DOMAIN obs :
          /\ i \in DOMAIN obs'
          /\ obs'[i].tokenCount = obs[i].tokenCount
          /\ obs'[i].discoveryTokens = obs[i].discoveryTokens]_vars

\* A row that was revised by update(), tombstoned and given an embedding
\* still carries the token costs create() wrote.
C21_Witness ==
    \E i \in DOMAIN obs :
       /\ obs[i].supersededBy # NULL /\ obs[i].deletedAt # NULL
       /\ obs[i].embedding # NULL /\ i \in vec
       /\ \E j \in DOMAIN obs : obs[j].revisionOf = i
       /\ obs[i].tokenCount = 50 /\ obs[i].discoveryTokens = 200
----------------------------------------------------------------------------
(* update() on a missing or inactive id. *)

\* C22: update(id, patch) on an id that names no row, a superseded row or a
\* tombstoned row returns null, adds no row and changes no row.
C22_UpdateOfInactiveIsNotFound ==
    [][(ret'.op = "update" /\ ~IsActive(obs, ret'.id))
          => (ret'.val = NULL /\ obs' = obs /\ nextId' = nextId)]_vars

\* update() with a patch that is not empty was called on a superseded row
\* and returned null.
C22_Witness ==
    /\ ret.op = "update" /\ ret.val = NULL /\ DOMAIN ret.patch # {}
    /\ ret.id \in DOMAIN obs
    /\ obs[ret.id].supersededBy # NULL
----------------------------------------------------------------------------
(* getLineage over arbitrary pointers. *)

----------------------------------------------------------------------------
(* Workflow modes. *)

\* The extends chain of a mode: the mode, the mode it extends, and so on,
\* for at most n steps.
RECURSIVE ExtendsChain(_, _, _)
ExtendsChain(raw, id, n) ==
    IF n = 0 \/ id \notin DOMAIN raw \/ NoExtends(raw[id])
    THEN <<id>>
    ELSE <<id>> \o ExtendsChain(raw, ValueOf(raw[id].extends), n - 1)

\* The chain of a mode comes back to a mode it has passed.
ReachesCycle(raw, id) ==
    LET chain == ExtendsChain(raw, id, Cardinality(DOMAIN raw))
    IN  \E i, j \in 1..Len(chain) : i < j /\ chain[i] = chain[j]

\* The chain of a mode passes no mode twice and ends in a mode file without
\* extends that carries name, description and the four arrays.
EndsInCompleteRoot(raw, id) ==
    LET chain == ExtendsChain(raw, id, Cardinality(DOMAIN raw))
    IN  /\ ~ReachesCycle(raw, id)
        /\ Range(chain) \subseteq DOMAIN raw
        /\ NoExtends(raw[chain[Len(chain)]])
        /\ isCompleteRootMode(raw[chain[Len(chain)]])

\* C24: resolveById of a mode whose extends chain reaches a cycle (the mode
\* extends itself, two modes extend each other, or the chain runs into a
\* cycle the mode is not part of) returns the default mode, id code.
C24_CyclicExtendsFallsBack ==
    (resolved.id # "" /\ ReachesCycle(rawModes, resolved.id))
        => (resolved.mode = cloneMode(DEFAULT_MODE) /\ resolved.mode.id = "code")

\* Mode a extends b, b and c extend each other, and resolveById(a) returned
\* the default mode.
C24_Witness ==
    /\ resolved.id = "a" /\ resolved.mode.id = "code"
    /\ DOMAIN rawModes = ModeIds
    /\ rawModes["a"].extends = Some("b")
    /\ rawModes["b"].extends = Some("c")
    /\ rawModes["c"].extends = Some("b")

\* C25: for a chain without a cycle that ends in a complete root mode,
\* resolveById(child) has the child's id, each of the four arrays is that
\* of the nearest mode of the chain (the child first) that carries it, and
\* promptOverrides holds every key of the chain with the value of the
\* nearest mode that carries the key.
C25_ModeInheritance ==
    (resolved.id # "" /\ EndsInCompleteRoot(rawModes, resolved.id)) =>
        LET chain == ExtendsChain(rawModes, resolved.id, Cardinality(DOMAIN rawModes))
            Nearest(has(_)) == CHOOSE k \in 1..Len(chain) :
                                  has(rawModes[chain[k]]) /\ \A j \in 1..(k - 1) : ~has(rawModes[chain[j]])
            Keys(m) == IF m.promptOverrides = None THEN {}
                       ELSE DOMAIN ValueOf(m.promptOverrides)
            allKeys == UNION { Keys(rawModes[chain[k]]) : k \in 1..Len(chain) }
        IN  /\ resolved.mode.id = resolved.id
            /\ \A f \in ArrayFields :
                  LET HasField(m) == m[f] # None
                  IN  resolved.mode[f] = ValueOf(rawModes[chain[Nearest(HasField)]][f])
            /\ resolved.mode.promptOverrides # None
            /\ DOMAIN ValueOf(resolved.mode.promptOverrides) = allKeys
            /\ \A key \in allKeys :
                  LET HasKey(m) == key \in Keys(m)
                  IN  ValueOf(resolved.mode.promptOverrides)[key] =
                         ValueOf(rawModes[chain[Nearest(HasKey)]].promptOverrides)[key]

\* Mode a extends b, b extends the complete root c; a carries no array, b
\* carries observationTypes; the overrides of a and b share a key.
C25_Witness ==
    /\ resolved.id = "a" /\ resolved.mode.id = "a"
    /\ DOMAIN rawModes = ModeIds
    /\ rawModes["a"].extends = Some("b") /\ rawModes["b"].extends = Some("c")
    /\ rawModes["c"].extends = None
    /\ resolved.mode.observationTypes = <<"b">>
    /\ resolved.mode.conceptVocabulary = <<"c">>
    /\ resolved.mode.promptOverrides = Some([k \in {"language", "tone"} |->
                                                IF k = "language" THEN "a" ELSE "b"])
----------------------------------------------------------------------------
(* Chat capture. *)

\* C26: persistChatMessage stores exactly one observation, of type
\* discovery, in the session of the message (created for the given project
\* if missing), when the agent is undefined or user and the redacted text
\* has at least MIN_MESSAGE_LENGTH characters; its narrative is the redacted
\* text cut to MAX_NARRATIVE_LENGTH characters.  Any other message stores no
\* observation and creates no session.
C26_ChatCaptureStoresUserMessagesOnly ==
    [][chat'.n # chat.n =>
          LET in == chat'.input
              redacted == redactSensitive(stripPrivateBlocks(in.text))
              captured == /\ in.agent \in {None, Some("user")}
                          /\ TextLength(redacted) >= MIN_MESSAGE_LENGTH
          IN  IF captured
              THEN /\ nextId \notin DOMAIN obs
                   /\ DOMAIN obs' = DOMAIN obs \cup {nextId}
                   /\ \A i \in DOMAIN obs : obs'[i] = obs[i]
                   /\ obs'[nextId].type = "discovery"
                   /\ obs'[nextId].sessionId = in.sessionId
                   /\ in.sessionId \in DOMAIN sessions'
                   /\ sessions'[in.sessionId].projectPath = in.projectPath
                   /\ obs'[nextId].narrative = Slice(redacted, MAX_NARRATIVE_LENGTH)
                   /\ TextLength(obs'[nextId].narrative) <= MAX_NARRATIVE_LENGTH
              ELSE obs' = obs /\ sessions' = sessions]_vars

\* Two messages agree outside their private blocks and outside the matches
\* of the sensitive patterns.
SameOutsideHidden(t1, t2) ==
    /\ Len(t1) = Len(t2)
    /\ \A k \in 1..Len(t1) :
          \/ t1[k] = t2[k]
          \/ t1[k].kind = t2[k].kind /\ t1[k].kind \in {"private", "secret"}

\* C27: the title, narrative, concepts and tokenCount chat capture stores
\* come from the text after private blocks are stripped and sensitive
\* matches are redacted: two messages that differ only inside a private
\* block or inside a redacted match are stored as equal observations.
C27_RedactionPrecedesPersistence ==
    \A a, b \in 1..Len(chat.raw) :
        SameOutsideHidden(chat.raw[a].text, chat.raw[b].text) =>
            \A f \in {"title", "narrative", "concepts", "tokenCount"} :
                obs[chat.raw[a].id][f] = obs[chat.raw[b].id][f]

\* Two stored messages differ inside a private block or inside a match of
\* a sensitive pattern, and nowhere else.
C27_Witness ==
    \E a, b \in 1..Len(chat.raw) :
       /\ chat.raw[a].text # chat.raw[b].text
       /\ SameOutsideHidden(chat.raw[a].text, chat.raw[b].text)
       /\ obs[chat.raw[a].id].narrative = obs[chat.raw[b].id].narrative
       /\ \E k \in 1..Len(obs[chat.raw[a].id].narrative) :
             obs[chat.raw[a].id].narrative[k] = RedactionMarker
----------------------------------------------------------------------------
(* The event bus. *)

\* The number of events received for an id.
EventCount(events, id) == Cardinality({ k \in 1..Len(events) : events[k] = id })

\* C28: when a listener receives observation:created for an id the row of
\* that id is already in the observations table; a create that throws emits
\* no event; a create that returns has emitted exactly one event.
C28_EventAfterDurableRow ==
    [][/\ bus'.events # bus.events =>
             /\ Len(bus'.events) = Len(bus.events) + 1
             /\ SubSeq(bus'.events, 1, Len(bus.events)) = bus.events
             /\ bus'.events[Len(bus'.events)] \in DOMAIN obs
       /\ bus'.threw # bus.threw => bus'.events = bus.events
       /\ \A i \in bus'.returned : EventCount(bus'.events, i) = 1
       /\ \A k \in 1..Len(bus'.events) :
             /\ EventCount(bus'.events, bus'.events[k]) = 1
             /\ bus'.pc = "idle" => bus'.events[k] \in bus'.returned]_vars

\* A create threw without an event, and a create and the create inside an
\* update each returned after one event.
C28_Witness ==
    /\ bus.pc = "idle" /\ bus.threw = 1
    /\ Len(bus.events) = 2 /\ Cardinality(bus.returned) = 2
    /\ \E i \in DOMAIN obs : obs[i].revisionOf # NULL /\ i \in bus.returned
----------------------------------------------------------------------------
(* Daemon mode. *)

\* C29: once the daemon was started and has stopped running, the queue
\* runtime is switched to in-process mode and the liveness timer cancelled
\* before more than one period of the timer has passed; the runtime enters
\* enqueue-only mode only when the plugin starts the daemon, so never again
\* after the switch; and if the daemon failed to start the runtime is
\* in-process.
C29_DaemonFallback ==
    [][/\ daemon'.deadFor <= LivenessPeriod
       /\ (daemon.mode = "enqueue-only" /\ daemon'.mode = "in-process")
             => (~daemon.alive /\ ~daemon'.timerSet)
       /\ (daemon'.mode = "enqueue-only" /\ daemon.mode # "enqueue-only")
             => daemon.phase = "init"
       /\ (daemon'.phase # "init" /\ ~daemon'.manager) => daemon'.mode = "in-process"
       /\ (daemon'.phase = "running" /\ daemon'.mode = "enqueue-only")
             => daemon'.timerSet]_vars

\* The daemon took a signal, died, and the next liveness check switched the
\* runtime to in-process mode, where a trigger ran a batch in the plugin.
C29_Witness ==
    /\ daemon.phase = "running" /\ daemon.manager /\ ~daemon.alive
    /\ daemon.mode = "in-process" /\ ~daemon.timerSet
    /\ daemon.deadFor = LivenessPeriod
    /\ daemon.signals > 0 /\ daemon.local > 0
----------------------------------------------------------------------------
(* The AI provider chain. *)

\* C30: a call tries the primary provider first and then the providers of
\* fallbackProviders in their configured order; it goes on to the next
\* provider only after a retryable failure; a configuration error ends the
\* call at once, and so does a success.
C30_ProviderFallbackOrder ==
    LET tried == provider.attempts
    IN  /\ Len(tried) <= 1 + Len(provider.fallbackProviders)
        /\ \A k \in 1..Len(tried) :
              /\ tried[k].name = IF k = 1 THEN provider.primary
                                 ELSE provider.fallbackProviders[k - 1]
              /\ k < Len(tried) => tried[k].outcome = "retryable"
        /\ (Len(tried) > 0 /\ tried[Len(tried)].outcome = "config-error")
              => provider.pc = "threw"
        /\ (Len(tried) > 0 /\ tried[Len(tried)].outcome = "ok")
              => provider.pc = "returned"
        /\ (provider.pc = "calling" /\ Len(tried) > 0)
              => tried[Len(tried)].outcome = "retryable"

\* With two fallback providers configured, the primary failed with a
\* retryable error, the first fallback with a configuration error, and the
\* call ended without trying the second fallback.
C30_Witness ==
    /\ Len(provider.fallbackProviders) = 2
    /\ provider.fallbackProviders[1] # provider.primary
    /\ provider.fallbackProviders[2] # provider.fallbackProviders[1]
    /\ provider.pc = "threw"
    /\ Len(provider.attempts) = 2
    /\ provider.attempts[1].outcome = "retryable"
    /\ provider.attempts[2].outcome = "config-error"
----------------------------------------------------------------------------
(* getLineage from different anchors. *)

\* C35: getLineage is independent of the anchor: for any two ids x and y
\* where y appears in getLineage(x), getLineage(y) equals getLineage(x).
C35_LineageIndependentOfAnchor ==
    \A x \in AllIds :
        \A y \in Range(GetLineage(obs, x)) :
            GetLineage(obs, y) = GetLineage(obs, x)
----------------------------------------------------------------------------
(* Retention cleanup. *)

\* C39: deleteOlderThan(days) removes only rows that are older than `days`
\* days or tombstoned, never removes a row whose session exists with a
\* status other than completed, never removes an active row younger than
\* `days` days, and leaves the rows it keeps as they were.
C39_RetentionConfinedToCompletedSessions ==
    [][ \A days \in 0..MaxDays :
          DeleteOlderThan(days) =>
             /\ \A i \in DOMAIN obs \ DOMAIN obs' :
                   obs[i].createdAt < now - days \/ obs[i].deletedAt # NULL
             /\ \A i \in DOMAIN obs :
                   /\ obs[i].sessionId \in DOMAIN sessions
                   /\ sessions[obs[i].sessionId].status # "completed"
                   => i \in DOMAIN obs'
             /\ \A i \in DOMAIN obs :
                   IsActive(obs, i) /\ obs[i].createdAt >= now - days
                   => i \in DOMAIN obs'
             /\ \A i \in DOMAIN obs' : i \in DOMAIN obs /\ obs'[i] = obs[i] ]_vars

\* The cleanup has removed a row and kept a row that is older than the
\* shortest retention and not tombstoned, of a session that is not completed.
C39_Witness ==
    /\ ret.op = "deleteOlderThan"
    /\ ret.val > 0
    /\ \E i \in DOMAIN obs :
          /\ obs[i].deletedAt = NULL
          /\ obs[i].createdAt < now
          /\ obs[i].sessionId \in DOMAIN sessions
          /\ sessions[obs[i].sessionId].status # "completed"
----------------------------------------------------------------------------
(* Mode resolution for every request. *)

\* C40: for every map of raw mode definitions and every requested id
\* (unknown id, incomplete root mode, parent that does not exist),
\* resolveById returns a mode whose observationTypes, conceptVocabulary,
\* entityTypes and relationshipTypes are all defined, each with the items of
\* the default mode or of a cached raw definition, and none of the four
\* arrays is an array of the default mode or of a cached raw definition.
C40_ModeResolutionTotal ==
    resolved.id # "" =>
        /\ resolved.mode = resolveById(resolved.id, rawModes)
        /\ \A f \in ArrayFields :
              /\ resolved.mode[f] \in
                    {DEFAULT_MODE[f]} \cup
                    { ValueOf(rawModes[m][f]) :
                         m \in { k \in DOMAIN rawModes : rawModes[k][f] # None } }
              /\ resolved.mode.owner[f] # "DEFAULT_MODE"
              /\ resolved.mode.owner[f] \notin DOMAIN rawModes

\* Mode a carries two of the four arrays and extends a mode no file
\* defines; resolveById(a) has the arrays of a and, for the other two, the
\* items of the default mode.
C40_Witness ==
    /\ resolved.id = "a" /\ resolved.mode.id = "a"
    /\ "a" \in DOMAIN rawModes
    /\ rawModes["a"].extends = Some(GhostMode)
    /\ rawModes["a"].entityTypes = None
    /\ resolved.mode.observationTypes = <<"a">>
    /\ resolved.mode.entityTypes = DEFAULT_MODE.entityTypes
----------------------------------------------------------------------------
(* Configuration. *)

\* C31: for every valid patch, every content of config.json and every
\* environment, previewConfig(projectPath, patch).config equals the config
\* getEffectiveConfig returns after patchConfig(projectPath, patch) in the
\* same environment, and previewConfig leaves config.json unchanged.
C31_PreviewEqualsApplied ==
    (config.last.op = "previewConfig" /\ validatePatch(config.last.patch) = {}) =>
        /\ config.last.config =
              getEffectiveConfig(MergedFile(readProjectConfig(config.last.file),
                                            config.last.patch),
                                 config.env)
        /\ config.file = config.last.file

\* The value an environment variable gives to a key, if any.
EnvValueOf(env, k) ==
    IF k = "provider" /\ "OPEN_MEM_PROVIDER" \in DOMAIN env
    THEN Some(JStr(env["OPEN_MEM_PROVIDER"]))
    ELSE IF k = "batchSize" /\ "OPEN_MEM_BATCH_SIZE" \in DOMAIN env
    THEN Some(JNum(parseInt(env["OPEN_MEM_BATCH_SIZE"])))
    ELSE None

\* The value precedence gives to key k: the override, else the environment
\* variable, else the value in config.json, else the default.
ByPrecedence(file, env, overrides, k) ==
    IF k \in DOMAIN overrides THEN overrides[k]
    ELSE IF EnvValueOf(env, k) # None THEN ValueOf(EnvValueOf(env, k))
    ELSE IF file.exists /\ k \in DOMAIN file.json THEN file.json[k]
    ELSE DEFAULT_CONFIG[k]

\* C32: for every configuration key the resolved value is the programmatic
\* override if given, else the environment variable, else the value in
\* .open-mem/config.json, else the default (dbPath resolved against the
\* project directory); in particular a provider set in the file is the
\* effective provider whenever neither OPEN_MEM_PROVIDER nor an override
\* sets one.
C32_ConfigPrecedence ==
    config.last.op = "resolveConfig" =>
        LET resolvedConfig == config.last.config
            Expected(k) == ByPrecedence(config.last.file, config.env, config.last.patch, k)
        IN  /\ \A k \in {"provider", "batchSize", "minOutputLength"} :
                  resolvedConfig[k] = Expected(k)
            /\ resolvedConfig["dbPath"].s = ResolvePath(ProjectDir, Expected("dbPath").s)

\* Key k of a patch fails validation: wrong type, value outside its min/max,
\* value outside its enum.
FailsValidation(k, v) ==
    \/ k \in {"dbPath", "provider"} /\ v.t # "string"
    \/ k \in {"batchSize", "minOutputLength"} /\ v.t # "number"
    \/ k = "provider" /\ v.t = "string"
          /\ v.s \notin {"google", "anthropic", "openai", "openai-compatible", "bedrock"}
    \/ k = "batchSize" /\ v.t = "number" /\ (v.n < 1 \/ v.n > 100)
    \/ k = "minOutputLength" /\ v.t = "number" /\ (v.n < 0 \/ v.n > 10000)

C37_AuditOnlyForPersistedChange ==
    \A i \in DOMAIN config.audit :
        LET event == config.audit[i]
        IN  /\ event.request.wrote
            /\ event.previousValues =
                  [k \in DOMAIN event.patch \cap DOMAIN event.request.before |->
                      event.request.before[k]]

\* C38: when two patchConfig calls with valid patches on disjoint keys run
\* concurrently, config.json holds both patches' keys after both calls have
\* completed.
C38_ConcurrentPatchesNotLost ==
    \A i, j \in DOMAIN config.audit :
        LET p == config.audit[i].patch
            q == config.audit[j].patch
        IN  (/\ i # j
             /\ validatePatch(p) = {} /\ validatePatch(q) = {}
             /\ DOMAIN p \cap DOMAIN q = {}
             /\ \A h \in Handlers : config.requests[h].pc = "idle")
            => /\ \A k \in DOMAIN p : k \in DOMAIN config.file.json
                                       /\ config.file.json[k] = p[k]
               /\ \A k \in DOMAIN q : k \in DOMAIN config.file.json
                                       /\ config.file.json[k] = q[k]
----------------------------------------------------------------------------
(* The OpenCode bridge. *)

\* C33: while no cleanup() intervenes and creation succeeds, the bridge
\* invokes session.create at most once for any number of concurrent
\* generateText calls, and every call sends its prompt to that same session
\* id.
C33_OneSharedSession ==
    (bridge.cleanups = 0 /\ bridge.failures = 0) =>
        /\ bridge.creates <= 1
        /\ \A p \in bridge.prompts : p.sid = 1 /\ bridge.sessionId = 1
        /\ \A c \in BridgeCalls :
              bridge.calls[c].pc \in {"prompt", "done"} =>
                 \E p \in bridge.prompts : p.call = c

\* Every call started while the session was being created, and each has
\* sent its prompt to the one session.
C33_Witness ==
    /\ bridge.cleanups = 0 /\ bridge.failures = 0 /\ bridge.creates = 1
    /\ \A c \in BridgeCalls :
          \E p \in bridge.prompts : p.call = c /\ p.waited /\ p.sid = 1

\* C34: for every interleaving of cleanup() with generateText calls and
\* session creation in flight, no prompt is sent to a session id for which
\* session.delete has already been issued, and once every cleanup() and all
\* calls started before the first one have completed, no session the bridge
\* created for them is left undeleted.
C34_CleanupSafeUnderInterleaving ==
    /\ \A p \in bridge.prompts : ~p.afterDelete
    /\ (/\ bridge.cleanups > 0
        /\ bridge.cleaned = bridge.cleanups
        /\ \A c \in BridgeCalls :
              bridge.calls[c].early => bridge.calls[c].pc \in {"done", "rejected"})
       => \A s \in bridge.sessions :
             (s.early /\ s.created) => s.id \in bridge.deleted
====
